---- MODULE Spec2Model ----
(***************************************************************************)
(* State-machine model of the NES emulator core (SatyoWasistho/NES_Emu):   *)
(* Controller (input.rs), PPU (ppu.rs), Bus (bus.rs) and CPU (cpu.rs).     *)
(*                                                                         *)
(* The Rust structs are modelled as nested records with the source's field *)
(* names: cpu_6502.mem_bus.ppu, cpu_6502.mem_bus.port1, ...  Every method  *)
(* is an operator from the receiver (and its arguments) to the receiver    *)
(* after the call, so that a handler which calls several methods in a row  *)
(* is one action.  Arrays that start zeroed (cpu_vram, vram, oam_data,     *)
(* palette_table) are kept as finite functions holding only their non-zero *)
(* cells.  A panic is recorded in the field `fatal` of the struct that     *)
(* raised it; an aborted process takes no further step.                    *)
(***************************************************************************)
EXTENDS Integers, Sequences, FiniteSets, TLC

VARIABLES
    cpu_6502,        \* the CPU struct of main.rs, owning Bus, PPU, Controllers
    overflow_checks, \* build profile: TRUE = arithmetic overflow panics (debug)
    ctl_hist,        \* history of the controller read sequences (per port)
    hist,            \* history of the interpret()/bus steps taken so far
    threads          \* main.rs: the two threads and the channels between them

vars == <<cpu_6502, overflow_checks, ctl_hist, hist, threads>>

-----------------------------------------------------------------------------
(* Bounds of the model.                                                    *)

MaxReads == 10      \* controller reads followed after one strobe pulse
MaxFrames == 2      \* frames followed by SpecCPU
MaxVblFrames == 1   \* frames followed by SpecVbl
MaxBusOps == 6      \* register operations followed by SpecVram and SpecOam
MaxDma == 2         \* $4014 writes followed by SpecOam
MaxIter == 8        \* window-loop iterations followed by SpecLoops
MaxMapOps == 4      \* bus operations followed by SpecBus
MaxStackOps == 5    \* stack operations followed by SpecStack

-----------------------------------------------------------------------------
(* Bit operations on unsigned integers.                                    *)

RECURSIVE And(_, _)
And(a, b) ==
    IF a = 0 \/ b = 0 THEN 0
    ELSE (a % 2) * (b % 2) + 2 * And(a \div 2, b \div 2)

Or(a, b) == a + b - And(a, b)

Xor(a, b) == a + b - 2 * And(a, b)

Shr(a, n) == a \div (2 ^ n)

(* Zero-initialised arrays: only the non-zero cells are stored.            *)
Get(f, i) == IF i \in DOMAIN f THEN f[i] ELSE 0

Put(f, i, val) ==
    IF val = 0
    THEN [j \in (DOMAIN f) \ {i} |-> f[j]]
    ELSE [j \in (DOMAIN f) \cup {i} |-> IF j = i THEN val ELSE f[j]]

Empty == [j \in {} |-> 0]

-----------------------------------------------------------------------------
(* input.rs: Controller                                                    *)

Controller_new == [shift |-> \h80, button_states |-> 0, strobe |-> FALSE]

Controller_read_noreload(ct) ==
    LET res == IF And(ct.button_states, ct.shift) # 0 THEN 1 ELSE 0
        sh  == Shr(ct.shift, 1)
    IN  [ct  |-> IF ~ct.strobe THEN [ct EXCEPT !.shift = sh] ELSE ct,
         res |-> res]

Controller_read(ct) ==
    LET res == IF And(ct.button_states, ct.shift) # 0 THEN 1 ELSE 0
        sh  == Shr(ct.shift, 1)
    IN  [ct  |-> IF ~ct.strobe
                 THEN [ct EXCEPT !.shift = IF sh = 0 THEN \h80 ELSE sh]
                 ELSE ct,
         res |-> res]

Controller_set_strobe_keep(ct) == [ct EXCEPT !.strobe = TRUE]

Controller_set_strobe(ct) == [ct EXCEPT !.strobe = TRUE, !.shift = \h80]

Controller_reset_strobe(ct) == [ct EXCEPT !.strobe = FALSE]

(* scancode -> button mask                                                 *)
ButtonOf(scancode) ==
    CASE scancode = 22 -> \h80
      [] scancode = 23 -> \h40
      [] scancode = 47 -> \h20
      [] scancode = 48 -> \h10
      [] scancode = 17 -> \h08
      [] scancode = 31 -> \h04
      [] scancode = 30 -> \h02
      [] scancode = 32 -> \h01
      [] OTHER -> 0

Controller_keyboard_input(ct, scancode, pressed) ==
    LET button == ButtonOf(scancode)
    IN  IF pressed
        THEN [ct EXCEPT !.button_states = Or(ct.button_states, button)]
        ELSE [ct EXCEPT !.button_states =
                            And(ct.button_states, 255 - button)]

-----------------------------------------------------------------------------
(* ppu.rs: PPU                                                             *)

VERTICAL == "VERTICAL"
HORIZONTAL == "HORIZONTAL"
FOUR_SCREEN == "FOUR_SCREEN"

PPU_new(chr_rom, mirroring) ==
    [chr_rom |-> chr_rom, palette_table |-> Empty, vram |-> Empty,
     oam_data |-> Empty, mirroring |-> mirroring,
     addr_hi |-> 0, addr_lo |-> 0, ctrl |-> 0, mask |-> 0, stat |-> 0,
     oam_addr |-> 0, fetch_scroll_x |-> 0, fetch_scroll_y |-> 0,
     scroll_x |-> 0, scroll_y |-> 0, data_buf |-> 0,
     v |-> 0, t |-> 0, x |-> 0, addr_latch |-> FALSE,
     cycles |-> 21, scanlines |-> 0, nmi_interrupt |-> FALSE,
     fatal |-> FALSE,   \* a panic was raised inside the PPU
     log |-> <<>>]      \* the PPU calls made by the current step

(* One entry of the call log: the call, its argument and result, and the   *)
(* registers before (0) and after (1) it.                                  *)
Event(op, arg, res, p0, p1) ==
    [op |-> op, arg |-> arg, res |-> res,
     stat0 |-> p0.stat, stat1 |-> p1.stat,
     nmi0 |-> p0.nmi_interrupt, nmi1 |-> p1.nmi_interrupt,
     sl0 |-> p0.scanlines, sl1 |-> p1.scanlines,
     fatal |-> p1.fatal]

Logged(op, arg, res, p0, p1) ==
    [p1 EXCEPT !.log = Append(p1.log, Event(op, arg, res, p0, p1))]

(* u16 `v += n`: panics on overflow in a build with overflow checks, wraps *)
(* otherwise.                                                              *)
AddV(p, n) ==
    IF p.fatal THEN p
    ELSE IF p.v + n > \hFFFF
    THEN IF overflow_checks THEN [p EXCEPT !.fatal = TRUE]
         ELSE [p EXCEPT !.v = (p.v + n) % 65536]
    ELSE [p EXCEPT !.v = p.v + n]

(* `self.scanlines - 4` is a u16 subtraction: below scanline 4 it panics   *)
(* with overflow checks and wraps to 65532.. without.                      *)
is_sprite_0_hit(p, cycle) ==
    IF p.scanlines < 4 /\ overflow_checks
    THEN [fatal |-> TRUE, hit |-> FALSE]
    ELSE [fatal |-> FALSE,
          hit |-> (Get(p.oam_data, 0) = (p.scanlines - 4) % 65536)
                  /\ (Get(p.oam_data, 3) <= cycle)
                  /\ (And(p.mask, \h10) # 0)]

(* PPU::tick, `if self.cycles == 256`, else branch: v with its coarse Y    *)
(* (y, bits 5-9) advanced.                                                 *)
IncCoarseY(v, y) ==
    Or(And(IF y = 29 THEN Xor(v, \h0800) ELSE v, \hFC1F),
       (IF y = 29 \/ y = 31 THEN 0 ELSE y + 1) * 32)

(* PPU::tick, the loop body at dots 256, 257 and 280..304 of line 261.     *)
DotScroll(p) ==
    IF p.cycles = 256
    THEN IF And(p.v, \h7000) # \h7000
         THEN AddV(p, \h1000)
         ELSE [p EXCEPT !.v = IncCoarseY(And(p.v, \h8FFF),
                                         Shr(And(p.v, \h03E0), 5))]
    ELSE IF p.cycles = 257
    THEN [p EXCEPT !.scroll_x = p.fetch_scroll_x,
                   !.v = Or(And(p.v, \h7BE0), And(p.t, \h041F))]
    ELSE IF p.scanlines = 261 /\ p.cycles >= 280 /\ p.cycles <= 304
    THEN [p EXCEPT !.scroll_y = p.fetch_scroll_y,
                   !.v = Or(And(p.v, \h041F), And(p.t, \h7BE0))]
    ELSE p

(* PPU::tick, the loop body at dots 8, 16, ..., 256, 328 and 336.          *)
DotCoarseX(p) ==
    IF (p.cycles = 328 \/ p.cycles = 336
        \/ (p.cycles > 0 /\ p.cycles <= 256 /\ p.cycles % 8 = 0))
       /\ ~p.fatal
    THEN IF And(p.v, \h001F) = 31
         THEN [p EXCEPT !.v = Xor(And(p.v, \hFFE0), \h0400)]
         ELSE AddV(p, 1)
    ELSE p

(* PPU::tick, `if self.cycles >= 341`, given the sprite-0 test h.          *)
EndOfLine(p, h) ==
    IF h.fatal THEN [p EXCEPT !.fatal = TRUE]
    ELSE [p EXCEPT !.stat = IF h.hit THEN Or(p.stat, \h40) ELSE p.stat,
                   !.cycles = 0,
                   !.scanlines = p.scanlines + 1]

DotEnd(p) ==
    IF p.cycles >= 341 /\ ~p.fatal
    THEN EndOfLine(p, is_sprite_0_hit(p, p.cycles))
    ELSE p

(* The body of the `for i in 0..cycles` loop of PPU::tick.                 *)
TickDot(p) ==
    DotEnd(DotCoarseX(DotScroll([p EXCEPT !.cycles = p.cycles + 1])))

(* The `for i in 0..cycles` loop of PPU::tick: n iterations of the body,   *)
(* computed as the first n \div 2 followed by the rest.                    *)
RECURSIVE TickLoop(_, _)
TickLoop(p, n) ==
    IF n = 0 \/ p.fatal THEN p
    ELSE IF n = 1 THEN TickDot(p)
    ELSE TickLoop(TickLoop(p, n \div 2), n - (n \div 2))

(* PPU::tick after the loop: `if self.scanlines == 241`.                   *)
TickVblank(p) ==
    IF p.scanlines = 241
    THEN [p EXCEPT !.stat = And(Or(p.stat, \h80), \hBF),
                   !.nmi_interrupt = (And(p.ctrl, \h80) # 0)
                                     \/ p.nmi_interrupt]
    ELSE p

TickWrap_keep(p) ==
    IF p.scanlines > 261
    THEN [ppu |-> [p EXCEPT !.scanlines = 0], frame |-> TRUE]
    ELSE [ppu |-> p, frame |-> FALSE]

TickWrap_late(p) ==
    IF p.scanlines > 262
    THEN [ppu |-> [p EXCEPT !.scanlines = 0, !.nmi_interrupt = FALSE,
                            !.stat = And(p.stat, \h3F)],
          frame |-> TRUE]
    ELSE [ppu |-> p, frame |-> FALSE]

(* PPU::tick after the loop: `if self.scanlines > 261`; frame is the value *)
(* tick returns.                                                           *)
TickWrap(p) ==
    IF p.scanlines > 261
    THEN [ppu |-> [p EXCEPT !.scanlines = 0, !.nmi_interrupt = FALSE,
                            !.stat = And(p.stat, \h3F)],
          frame |-> TRUE]
    ELSE [ppu |-> p, frame |-> FALSE]

TickLogged(p0, cycles, r) ==
    [ppu |-> Logged("tick", cycles, r.frame, p0, r.ppu), frame |-> r.frame]

TickEnd(p0, cycles, p1) ==
    IF p1.fatal THEN TickLogged(p0, cycles, [ppu |-> p1, frame |-> FALSE])
    ELSE TickLogged(p0, cycles, TickWrap(TickVblank(p1)))

PPU_tick(p, cycles) ==
    IF p.fatal THEN [ppu |-> p, frame |-> FALSE]
    ELSE TickEnd(p, cycles, TickLoop(p, cycles))

PPU_addr_write(p, val) ==
    Logged("addr_write", val, 0, p,
           IF p.addr_latch
           THEN [p EXCEPT !.addr_lo = val,
                          !.t = Or(And(p.t, \h00FF), And(val, \h3F) * 256),
                          !.addr_latch = FALSE]
           ELSE [p EXCEPT !.addr_hi = val,
                          !.t = Or(And(p.t, \hFF00), val),
                          !.v = Or(And(p.t, \hFF00), val),
                          !.addr_latch = TRUE])

PPU_ctrl_write_any_time(p, val) ==
    Logged("ctrl_write", val, 0, p,
           [p EXCEPT
              !.ctrl = val,
              !.nmi_interrupt =
                  (And(p.ctrl, \h80) = 0 /\ And(val, \h80) # 0)
                  \/ p.nmi_interrupt,
              !.t = Or(And(p.t, \hF3FF), And(val, 3) * 1024)])

PPU_ctrl_write(p, val) ==
    Logged("ctrl_write", val, 0, p,
           [p EXCEPT
              !.ctrl = val,
              !.nmi_interrupt =
                  (And(p.ctrl, \h80) = 0 /\ And(val, \h80) # 0
                   /\ And(p.stat, \h80) # 0) \/ p.nmi_interrupt,
              !.t = Or(And(p.t, \hF3FF), And(val, 3) * 1024)])

PPU_mask_write(p, val) ==
    Logged("mask_write", val, 0, p, [p EXCEPT !.mask = val])

PPU_stat_read_keep(p) ==
    [ppu |-> Logged("stat_read", 0, p.stat, p,
                    [p EXCEPT !.addr_latch = FALSE]),
     res |-> p.stat]

PPU_stat_read(p) ==
    [ppu |-> Logged("stat_read", 0, p.stat, p,
                    [p EXCEPT !.stat = And(p.stat, \h7F),
                              !.addr_latch = FALSE]),
     res |-> p.stat]

(* inc_vram_addr: addr_lo.overflowing_add(inc) and the carry into addr_hi  *)
(* (a u8 `+= 1`).                                                          *)
IncAddr(p, inc) ==
    IF p.fatal THEN p
    ELSE IF p.addr_lo + inc <= 255 THEN [p EXCEPT !.addr_lo = p.addr_lo + inc]
    ELSE IF p.addr_hi < 255
    THEN [p EXCEPT !.addr_lo = (p.addr_lo + inc) % 256,
                   !.addr_hi = p.addr_hi + 1]
    ELSE IF overflow_checks
    THEN [p EXCEPT !.addr_lo = (p.addr_lo + inc) % 256, !.fatal = TRUE]
    ELSE [p EXCEPT !.addr_lo = (p.addr_lo + inc) % 256, !.addr_hi = 0]

inc_vram_addr(p) ==
    AddV(IncAddr(p, IF And(p.ctrl, \h04) # 0 THEN 32 ELSE 1),
         IF And(p.ctrl, \h04) # 0 THEN 32 ELSE 1)

PPU_oam_addr_write(p, val) ==
    Logged("oam_addr_write", val, 0, p, [p EXCEPT !.oam_addr = val])

PPU_oam_write(p, val) ==
    Logged("oam_write", val, 0, p,
           [p EXCEPT !.oam_data = Put(p.oam_data, p.oam_addr, val),
                     !.oam_addr = (p.oam_addr + 1) % 256])

PPU_oam_read(p) == Get(p.oam_data, p.oam_addr)

(* The copy loop of write_oam_dma, oam_data[oam_addr + i] = data[i]: the   *)
(* index is not reduced modulo 256, so the iteration i = 256 - oam_addr is *)
(* out of bounds when oam_addr > 0 (the cells before it have been copied). *)
OamCopy(p, data) ==
    [p EXCEPT
       !.oam_data =
           [j \in {k \in 0 .. 255 :
                     IF k >= p.oam_addr THEN Get(data, k - p.oam_addr) # 0
                     ELSE Get(p.oam_data, k) # 0}
              |-> IF j >= p.oam_addr THEN Get(data, j - p.oam_addr)
                  ELSE Get(p.oam_data, j)],
       !.fatal = (p.oam_addr > 0)]

(* write_oam_dma: the third tick, self.tick(3 + (self.cycles % 2)).        *)
DmaLastTick(p) == PPU_tick(p, 3 + (p.cycles % 2)).ppu

DmaTicks(p0, p1) ==
    IF p1.fatal THEN Logged("write_oam_dma", 0, 0, p0, p1)
    ELSE Logged("write_oam_dma", 0, 0, p0,
                DmaLastTick(PPU_tick(PPU_tick(p1, 255).ppu, 255).ppu))

PPU_write_oam_dma(p, data) == DmaTicks(p, OamCopy(p, data))

PPU_scroll_write_own_latch(p, val) ==
    Logged("scroll_write", val, 0, p,
           [p EXCEPT !.fetch_scroll_x = val,
                     !.t = Or(Or(And(p.t, \h0C1F), (val * 4096) % 65536),
                              And(val, \hF8) * 4)])

PPU_scroll_write(p, val) ==
    Logged("scroll_write", val, 0, p,
           IF p.addr_latch
           THEN [p EXCEPT !.fetch_scroll_y = val,
                          !.t = Or(And(p.t, \hFFE0), Shr(val, 3)),
                          !.x = And(val, 3),
                          !.addr_latch = FALSE]
           ELSE [p EXCEPT !.fetch_scroll_x = val,
                          !.t = Or(Or(And(p.t, \h0C1F), (val * 4096) % 65536),
                                   And(val, \hF8) * 4),
                          !.addr_latch = TRUE])

mirror_vram_addr_swapped(p, addr) ==
    LET vram_idx == And(addr, \h2FFF) - \h2000
        name_table == (And(addr, \h2FFF) - \h2000) \div \h400
    IN  IF (p.mirroring = HORIZONTAL /\ name_table \in {2, 3})
           \/ (p.mirroring = VERTICAL /\ name_table = 3)
        THEN vram_idx - \h800
        ELSE IF p.mirroring = VERTICAL /\ name_table \in {1, 2}
        THEN vram_idx - \h400
        ELSE vram_idx

mirror_vram_addr(p, addr) ==
    LET vram_idx == And(addr, \h2FFF) - \h2000
        name_table == (And(addr, \h2FFF) - \h2000) \div \h400
    IN  IF (p.mirroring = VERTICAL /\ name_table \in {2, 3})
           \/ (p.mirroring = HORIZONTAL /\ name_table = 3)
        THEN vram_idx - \h800
        ELSE IF p.mirroring = HORIZONTAL /\ name_table \in {1, 2}
        THEN vram_idx - \h400
        ELSE vram_idx

(* PPU::read: the match on addr, after inc_vram_addr.                      *)
ReadAt(p, addr) ==
    IF p.fatal THEN [ppu |-> p, res |-> 0]
    ELSE IF addr <= \h1FFF
    THEN IF addr >= p.chr_rom.len
         THEN [ppu |-> [p EXCEPT !.fatal = TRUE], res |-> 0]
         ELSE [ppu |-> [p EXCEPT !.data_buf = Get(p.chr_rom.data, addr)],
               res |-> p.data_buf]
    ELSE IF addr <= \h2FFF
    THEN IF mirror_vram_addr(p, addr) >= \h800
         THEN [ppu |-> [p EXCEPT !.fatal = TRUE], res |-> 0]
         ELSE [ppu |-> [p EXCEPT !.data_buf =
                            Get(p.vram, mirror_vram_addr(p, addr))],
               res |-> p.data_buf]
    ELSE IF addr <= \h3EFF
    THEN [ppu |-> [p EXCEPT !.fatal = TRUE], res |-> 0]
    ELSE IF addr \in {\h3F10, \h3F14, \h3F18, \h3F1C}
    THEN [ppu |-> p, res |-> Get(p.palette_table, And(addr - \h10, \h1F))]
    ELSE IF addr <= \h3FFF
    THEN [ppu |-> p, res |-> Get(p.palette_table, And(addr, \h1F))]
    ELSE [ppu |-> [p EXCEPT !.fatal = TRUE], res |-> 0]

ReadLogged(p0, addr, r) ==
    [ppu |-> Logged("read", addr, r.res, p0, r.ppu), res |-> r.res]

PPU_read(p) ==
    ReadLogged(p, p.addr_hi * 256 + p.addr_lo,
               ReadAt(inc_vram_addr(p), p.addr_hi * 256 + p.addr_lo))

(* PPU::write: the match on addr, before inc_vram_addr.                    *)
WriteAt(p, addr, data) ==
    IF addr <= \h1FFF THEN p
    ELSE IF addr <= \h2FFF
    THEN IF mirror_vram_addr(p, addr) >= \h800 THEN [p EXCEPT !.fatal = TRUE]
         ELSE [p EXCEPT !.vram = Put(p.vram, mirror_vram_addr(p, addr), data)]
    ELSE IF addr <= \h3EFF THEN [p EXCEPT !.fatal = TRUE]
    ELSE IF addr \in {\h3F10, \h3F14, \h3F18, \h3F1C}
    THEN [p EXCEPT !.palette_table =
              Put(p.palette_table, And(addr - \h10, \h1F), data)]
    ELSE IF addr <= \h3FFF
    THEN [p EXCEPT !.palette_table =
              Put(p.palette_table, And(addr, \h1F), data)]
    ELSE [p EXCEPT !.fatal = TRUE]

PPU_write(p, data) ==
    Logged("write", p.addr_hi * 256 + p.addr_lo, data, p,
           inc_vram_addr(WriteAt(p, p.addr_hi * 256 + p.addr_lo, data)))

-----------------------------------------------------------------------------
(* bus.rs: Bus                                                             *)

Bus_new(rom) ==
    [cpu_vram |-> Empty,
     ppu |-> PPU_new(rom.chr_rom, rom.screen_mirroring),
     prg_rom |-> rom.prg_rom,
     port1 |-> Controller_new,
     port2 |-> Controller_new,
     fatal |-> FALSE]   \* a panic was raised inside the Bus

(* Where the byte of a CPU address in $8000-$FFFF sits in prg_rom.         *)
PrgOffset(len, addr) ==
    IF len = \h4000 /\ addr - \h8000 >= \h4000
    THEN (addr - \h8000) % \h4000
    ELSE addr - \h8000

(* The 16 KiB image is not mirrored into $C000-$FFFF.                      *)
read_prg_rom_unmirrored(b, addr) == Get(b.prg_rom.data, addr - \h8000)

read_prg_rom(b, addr) ==
    Get(b.prg_rom.data, PrgOffset(b.prg_rom.len, addr))

poll_nmi_status(b) == b.ppu.nmi_interrupt

Bus_tick(b, cycles) == [b EXCEPT !.ppu = PPU_tick(b.ppu, cycles).ppu]

BusFatal(b) == b.fatal \/ b.ppu.fatal

(* The value a read returns together with the bus after the read.          *)
ReadPpu(b, r) == [bus |-> [b EXCEPT !.ppu = r.ppu], res |-> r.res]
ReadPort1(b, r) == [bus |-> [b EXCEPT !.port1 = r.ct], res |-> r.res]
ReadPort2(b, r) == [bus |-> [b EXCEPT !.port2 = r.ct], res |-> r.res]

(* Bus::mem_read on an address outside the register mirrors $2008-$3FFF.   *)
mem_read_direct(b, addr) ==
    IF addr <= \h1FFF
    THEN [bus |-> b, res |-> Get(b.cpu_vram, And(addr, \h07FF))]
    ELSE IF addr \in {\h2000, \h2001, \h2003, \h2005, \h2006, \h4014}
    THEN [bus |-> b, res |-> 0]
    ELSE IF addr = \h2002 THEN ReadPpu(b, PPU_stat_read(b.ppu))
    ELSE IF addr = \h2004 THEN [bus |-> b, res |-> PPU_oam_read(b.ppu)]
    ELSE IF addr = \h2007 THEN ReadPpu(b, PPU_read(b.ppu))
    ELSE IF addr = \h4016 THEN ReadPort1(b, Controller_read(b.port1))
    ELSE IF addr = \h4017 THEN ReadPort2(b, Controller_read(b.port2))
    ELSE IF addr >= \h8000 THEN [bus |-> b, res |-> read_prg_rom(b, addr)]
    ELSE [bus |-> b, res |-> 0]

(* The RAM mirrors $0800-$1FFF are not decoded.                            *)
mem_read_ram_unmirrored(b, addr) ==
    IF BusFatal(b) \/ (addr >= \h0800 /\ addr <= \h1FFF)
    THEN [bus |-> b, res |-> 0]
    ELSE mem_read_direct(b, IF addr >= \h2008 /\ addr <= \h3FFF
                            THEN And(addr, \h2007) ELSE addr)

mem_read(b, addr) ==
    IF BusFatal(b) THEN [bus |-> b, res |-> 0]
    ELSE mem_read_direct(b, IF addr >= \h2008 /\ addr <= \h3FFF
                            THEN And(addr, \h2007) ELSE addr)

(* The $4014 arm of Bus::mem_write: the page handed to write_oam_dma.      *)
oam_dma_page(b, data) ==
    [i \in {k \in 0 .. 255 :
              Get(b.cpu_vram, And(data * 256, \h07FF) + k) # 0}
       |-> Get(b.cpu_vram, And(data * 256, \h07FF) + i)]

(* Bus::mem_write on an address outside the register mirrors $2008-$3FFF.  *)
mem_write_direct(b, addr, data) ==
    IF addr <= \h1FFF
    THEN [b EXCEPT !.cpu_vram = Put(b.cpu_vram, And(addr, \h07FF), data)]
    ELSE IF addr = \h2000
    THEN [b EXCEPT !.ppu = PPU_ctrl_write(b.ppu, data)]
    ELSE IF addr = \h2001
    THEN [b EXCEPT !.ppu = PPU_mask_write(b.ppu, data)]
    ELSE IF addr = \h2002
    THEN [b EXCEPT !.fatal = TRUE]
    ELSE IF addr = \h2003
    THEN [b EXCEPT !.ppu = PPU_oam_addr_write(b.ppu, data)]
    ELSE IF addr = \h2004
    THEN [b EXCEPT !.ppu = PPU_oam_write(b.ppu, data)]
    ELSE IF addr = \h2005
    THEN [b EXCEPT !.ppu = PPU_scroll_write(b.ppu, data)]
    ELSE IF addr = \h2006
    THEN [b EXCEPT !.ppu = PPU_addr_write(b.ppu, data)]
    ELSE IF addr = \h2007
    THEN [b EXCEPT !.ppu = PPU_write(b.ppu, data)]
    ELSE IF addr = \h4014
    THEN [b EXCEPT !.ppu = PPU_write_oam_dma(b.ppu, oam_dma_page(b, data))]
    ELSE IF addr = \h4016
    THEN [b EXCEPT !.port1 = IF And(data, 1) # 0
                             THEN Controller_set_strobe(b.port1)
                             ELSE Controller_reset_strobe(b.port1)]
    ELSE IF addr = \h4017
    THEN [b EXCEPT !.port2 = IF And(data, 1) # 0
                             THEN Controller_set_strobe(b.port2)
                             ELSE Controller_reset_strobe(b.port2)]
    ELSE IF addr >= \h8000
    THEN [b EXCEPT !.fatal = TRUE]
    ELSE b

(* A write to the cartridge ROM space is ignored.                          *)
mem_write_rom_ignored(b, addr, data) ==
    IF BusFatal(b) \/ addr >= \h8000 THEN b
    ELSE mem_write_direct(b, IF addr >= \h2008 /\ addr <= \h3FFF
                             THEN And(addr, \h2007) ELSE addr, data)

(* The register mirrors $2008-$3FFF are not folded onto $2000-$2007.       *)
mem_write_unmirrored(b, addr, data) ==
    IF BusFatal(b) THEN b ELSE mem_write_direct(b, addr, data)

mem_write(b, addr, data) ==
    IF BusFatal(b) THEN b
    ELSE mem_write_direct(b, IF addr >= \h2008 /\ addr <= \h3FFF
                             THEN And(addr, \h2007) ELSE addr, data)

(* Bus::mem_read16: lo is the result of the first read; `addr + 1` is a    *)
(* u16 addition.                                                           *)
Read16Join(lo, hi) == [bus |-> hi.bus, res |-> hi.res * 256 + lo]

Read16Hi(addr, lo) ==
    IF addr = \hFFFF /\ overflow_checks
    THEN [bus |-> [lo.bus EXCEPT !.fatal = TRUE], res |-> 0]
    ELSE Read16Join(lo.res, mem_read(lo.bus, (addr + 1) % 65536))

mem_read16(b, addr) == Read16Hi(addr, mem_read(b, addr))

-----------------------------------------------------------------------------
(* rom.rs / main.rs: the cartridge image and start-up                      *)

(* Interrupt vectors of the images considered.                             *)
ResetVector == \hC000
BrkVector == \hC400
NmiVector == \hC800

(* PRG data with `bytes` stored from CPU address addr on.                  *)
PrgPut(data, addr, bytes) ==
    [o \in (DOMAIN data)
           \cup {PrgOffset(\h4000, addr + k - 1) : k \in 1 .. Len(bytes)}
      |-> IF \E k \in 1 .. Len(bytes) : o = PrgOffset(\h4000, addr + k - 1)
          THEN bytes[CHOOSE k \in 1 .. Len(bytes) :
                        o = PrgOffset(\h4000, addr + k - 1)]
          ELSE data[o]]

(* A 16 KiB PRG image, zero except for the three vectors and the code of   *)
(* program: main at the reset vector, brk and nmi at their vectors.        *)
Image(program) ==
    PrgPut(PrgPut(PrgPut(PrgPut(Empty, NmiVector, program.nmi),
                         BrkVector, program.brk),
                  ResetVector, program.main),
           \hFFFA, <<NmiVector % 256, NmiVector \div 256,
                     ResetVector % 256, ResetVector \div 256,
                     BrkVector % 256, BrkVector \div 256>>)

NoProgram == [main |-> <<>>, brk |-> <<>>, nmi |-> <<>>]

(* The struct Rom::new returns for an image with one PRG page holding      *)
(* program, the given mirroring flags and one CHR page with a few non-zero *)
(* pattern bytes.                                                          *)
Rom(program, mirroring) ==
    [prg_rom |-> [len |-> \h4000, data |-> Image(program)],
     chr_rom |-> [len |-> \h2000,
                  data |-> (0 :> \h11) @@ (1 :> \h22)
                           @@ (32 :> \h33) @@ (\h1FFF :> \h44)],
     mapper |-> 0,
     screen_mirroring |-> mirroring]

-----------------------------------------------------------------------------
(* cpu.rs: CPU                                                             *)

CPU_new(mem_bus) ==
    [nmi_flag |-> FALSE, cycles |-> 0, tot_cycles |-> 0,
     reg_a |-> 0, reg_x |-> 0, reg_y |-> 0, reg_stat |-> \h30,
     reg_pc |-> 0, reg_sp |-> \hFF, mem_bus |-> mem_bus,
     fatal |-> FALSE]   \* a panic was raised inside the CPU

ResetRegs(c, r) ==
    [c EXCEPT !.reg_a = 0, !.reg_x = 0, !.reg_y = 0, !.reg_stat = \h24,
              !.reg_sp = \hFD, !.reg_pc = r.res, !.mem_bus = r.bus,
              !.tot_cycles = 7]

reset(c) == ResetRegs(c, mem_read16(c.mem_bus, \hFFFC))

(* main.rs startup(): Rom::new, Bus::new, CPU::new, reset                  *)
startup(rom) == reset(CPU_new(Bus_new(rom)))

Fatal(c) == c.fatal \/ BusFatal(c.mem_bus)

(* cpu/opcodes.rs, OPCODES_MAP: the entries of the opcodes the programs    *)
(* considered use.                                                         *)
OPCODES_MAP ==
    (\h00 :> [mnemonic |-> "BRK", mode |-> "NoneAddressing",
              len |-> 1, cycles |-> 7])
    @@ (\h08 :> [mnemonic |-> "PHP", mode |-> "NoneAddressing",
                 len |-> 1, cycles |-> 3])
    @@ (\h28 :> [mnemonic |-> "PLP", mode |-> "NoneAddressing",
                 len |-> 1, cycles |-> 4])
    @@ (\h40 :> [mnemonic |-> "RTI", mode |-> "NoneAddressing",
                 len |-> 1, cycles |-> 6])
    @@ (\h4C :> [mnemonic |-> "JMP", mode |-> "Absolute",
                 len |-> 3, cycles |-> 3])
    @@ (\h58 :> [mnemonic |-> "CLI", mode |-> "NoneAddressing",
                 len |-> 1, cycles |-> 2])
    @@ (\h69 :> [mnemonic |-> "ADC", mode |-> "Immediate",
                 len |-> 2, cycles |-> 2])
    @@ (\h6C :> [mnemonic |-> "JMP", mode |-> "Indirect",
                 len |-> 3, cycles |-> 5])
    @@ (\h8D :> [mnemonic |-> "STA", mode |-> "Absolute",
                 len |-> 3, cycles |-> 4])
    @@ (\hA0 :> [mnemonic |-> "LDY", mode |-> "Immediate",
                 len |-> 2, cycles |-> 2])
    @@ (\hA2 :> [mnemonic |-> "LDX", mode |-> "Immediate",
                 len |-> 2, cycles |-> 2])
    @@ (\hA9 :> [mnemonic |-> "LDA", mode |-> "Immediate",
                 len |-> 2, cycles |-> 2])
    @@ (\hAD :> [mnemonic |-> "LDA", mode |-> "Absolute",
                 len |-> 3, cycles |-> 4])
    @@ (\hC0 :> [mnemonic |-> "CPY", mode |-> "Immediate",
                 len |-> 2, cycles |-> 2])
    @@ (\hC9 :> [mnemonic |-> "CMP", mode |-> "Immediate",
                 len |-> 2, cycles |-> 2])
    @@ (\hD0 :> [mnemonic |-> "BNE", mode |-> "NoneAddressing",
                 len |-> 2, cycles |-> 2])
    @@ (\hE0 :> [mnemonic |-> "CPX", mode |-> "Immediate",
                 len |-> 2, cycles |-> 2])
    @@ (\hEA :> [mnemonic |-> "NOP", mode |-> "NoneAddressing",
                 len |-> 1, cycles |-> 2])
    @@ (\hF0 :> [mnemonic |-> "BEQ", mode |-> "NoneAddressing",
                 len |-> 2, cycles |-> 2])

(* get_op_addr: the bus after the three reads it always makes (arg, arg2,  *)
(* arg3).                                                                  *)
OpArgs(b, pc) ==
    mem_read16(mem_read(mem_read(b, pc).bus, (pc + 1) % 65536).bus, pc).bus

(* The Indirect arm of get_op_addr: the low byte is read at arg3 and the   *)
(* high byte at `arg.wrapping_add(1) as u16 + ((arg2 as u16) << 8)`.       *)
IndirectJoin(lo, hi) == [bus |-> hi.bus, res |-> lo.res + hi.res * 256]

IndirectHi(lo, arg, arg2) ==
    IndirectJoin(lo, mem_read(lo.bus, ((arg + 1) % 256) + arg2 * 256))

Indirect(b, arg, arg2, arg3) ==
    IndirectHi(mem_read(b, arg3), arg, arg2)

(* The high byte of an Indirect address is read at arg3 + 1.               *)
get_op_addr_nowrap(c, mode) ==
    IF mode = "Immediate"
    THEN [bus |-> OpArgs(c.mem_bus, c.reg_pc), res |-> c.reg_pc]
    ELSE IF mode = "Absolute"
    THEN mem_read16(OpArgs(c.mem_bus, c.reg_pc), c.reg_pc)
    ELSE IF mode = "Indirect"
    THEN mem_read16(OpArgs(c.mem_bus, c.reg_pc),
                    mem_read16(c.mem_bus, c.reg_pc).res)
    ELSE [bus |-> [c.mem_bus EXCEPT !.fatal = TRUE], res |-> 0]

(* get_op_addr for the modes Immediate, Absolute and Indirect; any other   *)
(* mode here is NoneAddressing, which panics.                              *)
get_op_addr(c, mode) ==
    IF mode = "Immediate"
    THEN [bus |-> OpArgs(c.mem_bus, c.reg_pc), res |-> c.reg_pc]
    ELSE IF mode = "Absolute"
    THEN mem_read16(OpArgs(c.mem_bus, c.reg_pc), c.reg_pc)
    ELSE IF mode = "Indirect"
    THEN Indirect(OpArgs(c.mem_bus, c.reg_pc),
                  mem_read(c.mem_bus, c.reg_pc).res,
                  mem_read(c.mem_bus, (c.reg_pc + 1) % 65536).res,
                  mem_read16(c.mem_bus, c.reg_pc).res)
    ELSE [bus |-> [c.mem_bus EXCEPT !.fatal = TRUE], res |-> 0]

change_endian(val) == And(val, \h00FF) * 256 + Shr(val, 8)

(* SP is decremented before the write.                                     *)
stack_push_predecrement(c, val) ==
    [c EXCEPT !.mem_bus = mem_write(c.mem_bus,
                                    \h0100 + (IF c.reg_sp = 0 THEN \hFF
                                              ELSE c.reg_sp - 1), val),
              !.reg_sp = IF c.reg_sp = 0 THEN \hFF ELSE c.reg_sp - 1]

stack_push(c, val) ==
    [c EXCEPT !.mem_bus = mem_write(c.mem_bus, \h0100 + c.reg_sp, val),
              !.reg_sp = IF c.reg_sp = 0 THEN \hFF ELSE c.reg_sp - 1]

stack_push16(c, val) ==
    stack_push(stack_push(c, Shr(val, 8)), And(val, \h00FF))

(* stack_pull, given the CPU with reg_sp already moved: the byte read and  *)
(* the CPU after the read.                                                 *)
PullRead(c, r) == [cpu |-> [c EXCEPT !.mem_bus = r.bus], res |-> r.res]

PullAt(c) == PullRead(c, mem_read(c.mem_bus, \h0100 + c.reg_sp))

stack_pull(c) ==
    PullAt([c EXCEPT !.reg_sp = IF c.reg_sp = \hFF THEN 0 ELSE c.reg_sp + 1])

(* stack_pull16, given the first pull (hi).                                *)
Pull16Lo(hi, lo) == [cpu |-> lo.cpu, res |-> hi * 256 + lo.res]

stack_pull16(c) == Pull16Lo(stack_pull(c).res, stack_pull(stack_pull(c).cpu))

update_nz_sticky(c, res) ==
    [c EXCEPT !.reg_stat =
        Or(Or(c.reg_stat, IF res = 0 THEN \h02 ELSE 0),
           IF And(res, \h80) # 0 THEN \h80 ELSE 0)]

update_nz(c, res) ==
    [c EXCEPT !.reg_stat =
        IF And(res, \h80) # 0
        THEN Or(IF res = 0 THEN Or(c.reg_stat, \h02)
                ELSE And(c.reg_stat, \hFD), \h80)
        ELSE And(IF res = 0 THEN Or(c.reg_stat, \h02)
                 ELSE And(c.reg_stat, \hFD), \h7F)]

(* lda, given the result r of get_op_addr.                                 *)
LoadA(c, r) ==
    update_nz([c EXCEPT !.reg_a = r.res, !.mem_bus = r.bus], r.res)

lda(c, mode) ==
    LET r == get_op_addr(c, mode) IN LoadA(c, mem_read(r.bus, r.res))

LoadX(c, r) ==
    update_nz([c EXCEPT !.reg_x = r.res, !.mem_bus = r.bus], r.res)

ldx(c, mode) ==
    LET r == get_op_addr(c, mode) IN LoadX(c, mem_read(r.bus, r.res))

LoadY(c, r) ==
    update_nz([c EXCEPT !.reg_y = r.res, !.mem_bus = r.bus], r.res)

ldy(c, mode) ==
    LET r == get_op_addr(c, mode) IN LoadY(c, mem_read(r.bus, r.res))

(* The `while place != 0x00` loop of cmp, cpx and cpy: a bit-serial adder  *)
(* of reg and val from bit `place` on, the carry into that bit being cin.  *)
RECURSIVE RippleAdd(_, _, _, _, _)
RippleAdd(reg, val, place, cin, res) ==
    IF place > \h80 THEN [res |-> res, cout |-> cin]
    ELSE RippleAdd(reg, val, place * 2,
                   IF (IF And(place, val) # 0 THEN 1 ELSE 0)
                      + (IF And(place, reg) # 0 THEN 1 ELSE 0) + cin >= 2
                   THEN 1 ELSE 0,
                   IF ((IF And(place, val) # 0 THEN 1 ELSE 0)
                       + (IF And(place, reg) # 0 THEN 1 ELSE 0) + cin) % 2 = 1
                   THEN Or(res, place) ELSE res)

(* The tail of cmp, cpx and cpy: the carry flag from cout, then update_nz. *)
CompareFlags(c, sum) ==
    update_nz([c EXCEPT !.reg_stat = IF sum.cout # 0
                                     THEN Or(c.reg_stat, \h01)
                                     ELSE And(c.reg_stat, \hFE)],
              sum.res)

(* The carry into bit 0 is 0.                                              *)
Compare_borrow(c, reg, r) ==
    CompareFlags([c EXCEPT !.mem_bus = r.bus],
                 RippleAdd(reg, 255 - r.res, 1, 0, 0))

(* cmp, cpx and cpy after the operand read r: `val = !val`, `cin = 1`.     *)
Compare(c, reg, r) ==
    CompareFlags([c EXCEPT !.mem_bus = r.bus],
                 RippleAdd(reg, 255 - r.res, 1, 1, 0))

cmp(c, mode) ==
    LET r == get_op_addr(c, mode)
    IN  Compare(c, c.reg_a, mem_read(r.bus, r.res))

cpx(c, mode) ==
    LET r == get_op_addr(c, mode)
    IN  Compare(c, c.reg_x, mem_read(r.bus, r.res))

cpy(c, mode) ==
    LET r == get_op_addr(c, mode)
    IN  Compare(c, c.reg_y, mem_read(r.bus, r.res))

(* adc after the operand read: res is the 9-bit sum, cin the old carry.     *)
AdcFlags(c, cin, res) ==
    [c EXCEPT !.reg_a = res % 256,
              !.reg_stat =
                  LET s == IF res \div 256 # 0 THEN Or(c.reg_stat, \h01)
                           ELSE And(c.reg_stat, \hFE)
                  IN  IF cin + (res \div 256) = 1 THEN Or(s, \h40)
                      ELSE And(s, \hBF)]

(* adc, given the result r of the operand read.                            *)
AddA(c, r) ==
    update_nz(AdcFlags([c EXCEPT !.mem_bus = r.bus],
                       And(c.reg_stat, \h01),
                       c.reg_a + r.res + And(c.reg_stat, \h01)),
              (c.reg_a + r.res + And(c.reg_stat, \h01)) % 256)

adc(c, mode) ==
    LET r == get_op_addr(c, mode) IN AddA(c, mem_read(r.bus, r.res))

cli(c) == [c EXCEPT !.reg_stat = And(c.reg_stat, \hFB)]

sta(c, mode) ==
    LET r == get_op_addr(c, mode)
    IN  [c EXCEPT !.mem_bus = mem_write(r.bus, r.res, c.reg_a)]

jmp(c, mode) ==
    LET r == get_op_addr(c, mode)
    IN  [c EXCEPT !.reg_pc = r.res, !.mem_bus = r.bus]

(* The tail of brk and interrupt_nmi: reg_pc = mem_read16(vector), then    *)
(* reg_stat |= flag.                                                       *)
LoadVector(c, r, flag) ==
    [c EXCEPT !.reg_pc = r.res, !.mem_bus = r.bus,
              !.reg_stat = Or(c.reg_stat, flag)]

(* self.stack_push(self.reg_stat | bits)                                   *)
PushStat(c, bits) == stack_push(c, Or(c.reg_stat, bits))

brk(c) ==
    LET c1 == PushStat(stack_push16(c, c.reg_pc), \h30)
    IN  LoadVector(c1, mem_read16(c1.mem_bus, \hFFFE), \h10)

(* rti, given the pull of reg_stat (s) and the pull of the address (a).    *)
RtiStat(s) ==
    [s.cpu EXCEPT !.reg_stat = And(Or(s.res, \h20), \hEF)]

RtiPc(a) == [a.cpu EXCEPT !.reg_pc = change_endian(a.res)]

rti(c) == RtiPc(stack_pull16(RtiStat(stack_pull(c))))

php(c) == PushStat(c, \h30)

(* The pulled byte becomes reg_stat as it is.                              *)
plp_raw(c) == [stack_pull(c).cpu EXCEPT !.reg_stat = stack_pull(c).res]

plp(c) == RtiStat(stack_pull(c))

(* The body of a taken branch, r being the read of the offset byte:        *)
(* reg_pc = reg_pc.wrapping_add(sign-extended offset).wrapping_add(1).     *)
BranchTo(c, r) ==
    [c EXCEPT !.mem_bus = r.bus,
              !.reg_pc = (c.reg_pc + r.res
                          + (IF And(r.res, \h80) # 0 THEN \hFF00 ELSE 0) + 1)
                         % 65536]

bne(c) ==
    IF And(c.reg_stat, \h02) = 0
    THEN BranchTo(c, mem_read(c.mem_bus, c.reg_pc)) ELSE c

beq(c) ==
    IF And(c.reg_stat, \h02) # 0
    THEN BranchTo(c, mem_read(c.mem_bus, c.reg_pc)) ELSE c

(* The InterruptDisable flag is set before P is pushed.                    *)
interrupt_nmi_masked(c) ==
    LET c1 == PushStat(stack_push16([c EXCEPT !.reg_stat = Or(@, \h04)],
                                    c.reg_pc), And(\h20, \hEF))
    IN  LoadVector(c1, mem_read16(c1.mem_bus, \hFFFA), \h04)

(* interrupt_nmi; in `self.reg_stat | 0x20 & 0xEF` the operator & binds    *)
(* tighter than |.                                                         *)
interrupt_nmi(c) ==
    LET c1 == PushStat(stack_push16(c, c.reg_pc), And(\h20, \hEF))
    IN  LoadVector(c1, mem_read16(c1.mem_bus, \hFFFA), \h04)

(* interpret: `self.mem_bus.poll_nmi_status() && !self.nmi_flag`           *)
nmi_pending_level(c) == poll_nmi_status(c.mem_bus)

nmi_pending(c) == poll_nmi_status(c.mem_bus) /\ ~c.nmi_flag

(* interpret: the match on opcode.mnemonic.                                *)
Dispatch(c, opcode) ==
    IF opcode.mnemonic = "ADC" THEN adc(c, opcode.mode)
    ELSE IF opcode.mnemonic = "BRK" THEN brk(c)
    ELSE IF opcode.mnemonic = "CLI" THEN cli(c)
    ELSE IF opcode.mnemonic = "RTI" THEN rti(c)
    ELSE IF opcode.mnemonic = "JMP" THEN jmp(c, opcode.mode)
    ELSE IF opcode.mnemonic = "STA" THEN sta(c, opcode.mode)
    ELSE IF opcode.mnemonic = "LDA" THEN lda(c, opcode.mode)
    ELSE IF opcode.mnemonic = "LDX" THEN ldx(c, opcode.mode)
    ELSE IF opcode.mnemonic = "LDY" THEN ldy(c, opcode.mode)
    ELSE IF opcode.mnemonic = "CMP" THEN cmp(c, opcode.mode)
    ELSE IF opcode.mnemonic = "CPX" THEN cpx(c, opcode.mode)
    ELSE IF opcode.mnemonic = "CPY" THEN cpy(c, opcode.mode)
    ELSE IF opcode.mnemonic = "PHP" THEN php(c)
    ELSE IF opcode.mnemonic = "PLP" THEN plp(c)
    ELSE IF opcode.mnemonic = "BNE" THEN bne(c)
    ELSE IF opcode.mnemonic = "BEQ" THEN beq(c)
    ELSE c

(* interpret, "Extra Cycles": the branch arm (the opcodes here have no     *)
(* indexed mode, so the page-crossing arm of the read opcodes adds         *)
(* nothing). `pc_state + opcode.len as u16 - 1` is a u16 sum.              *)
ExtraCycles(pc_state, opcode, c) ==
    IF Fatal(c) \/ opcode.mnemonic \notin {"BNE", "BEQ"}
       \/ pc_state = c.reg_pc
    THEN c
    ELSE IF pc_state + opcode.len > \hFFFF /\ overflow_checks
    THEN [c EXCEPT !.fatal = TRUE]
    ELSE IF And((pc_state + opcode.len - 1) % 65536, \hFF00)
            # And(c.reg_pc, \hFF00)
    THEN [c EXCEPT !.cycles = c.cycles + 2]
    ELSE [c EXCEPT !.cycles = c.cycles + 1]

(* interpret: `if pc_state == self.reg_pc { self.reg_pc += len - 1 }`      *)
AdvancePc(pc_state, opcode, c) ==
    IF Fatal(c) \/ pc_state # c.reg_pc THEN c
    ELSE IF c.reg_pc + opcode.len - 1 > \hFFFF
    THEN IF overflow_checks THEN [c EXCEPT !.fatal = TRUE]
         ELSE [c EXCEPT !.reg_pc = (c.reg_pc + opcode.len - 1) % 65536]
    ELSE [c EXCEPT !.reg_pc = c.reg_pc + opcode.len - 1]

(* interpret: the else branch from the opcode fetch on; r is the fetch.    *)
Execute(c, r) ==
    IF BusFatal(r.bus) THEN [c EXCEPT !.mem_bus = r.bus]
    ELSE IF r.res \notin DOMAIN OPCODES_MAP
    THEN [c EXCEPT !.mem_bus = r.bus, !.fatal = TRUE]
    ELSE AdvancePc(c.reg_pc + 1, OPCODES_MAP[r.res],
                   ExtraCycles(c.reg_pc + 1, OPCODES_MAP[r.res],
                               Dispatch([c EXCEPT
                                           !.mem_bus = r.bus,
                                           !.reg_pc = c.reg_pc + 1,
                                           !.cycles = c.cycles
                                              + OPCODES_MAP[r.res].cycles],
                                        OPCODES_MAP[r.res])))

(* interpret: `if !self.mem_bus.poll_nmi_status() { nmi_flag = false }`    *)
Rearm(c) ==
    IF ~poll_nmi_status(c.mem_bus) THEN [c EXCEPT !.nmi_flag = FALSE] ELSE c

(* interpret: `if self.cycles > 0 { tick(3 * cycles); tot_cycles += ... }` *)
TickCycles(c) ==
    IF Fatal(c) \/ c.cycles = 0 THEN c
    ELSE [c EXCEPT !.mem_bus = Bus_tick(c.mem_bus, 3 * c.cycles),
                   !.tot_cycles = c.tot_cycles + c.cycles,
                   !.cycles = 0]

interpret(c) ==
    IF c.reg_pc >= \hFFFF THEN c
    ELSE IF nmi_pending(c)
    THEN TickCycles([interrupt_nmi(c) EXCEPT !.nmi_flag = TRUE,
                                             !.cycles = c.cycles + 2])
    ELSE TickCycles(Execute(Rearm(c), mem_read(c.mem_bus, c.reg_pc)))

(* The PPU call log describes one step: it is emptied when a step begins.  *)
ClearLog(c) == [c EXCEPT !.mem_bus.ppu.log = <<>>]

-----------------------------------------------------------------------------
(* main.rs: compute_thread and window_thread, and the two channels of      *)
(* main(): frame (compute to window) and input (window to compute), both   *)
(* mpsc::sync_channel(1).                                                  *)

(* compute_thread after `tx.send(frame.data)` at line 117: the receive of  *)
(* line 118, before the loop.                                              *)
AfterFirstSend_loop == "recv"

AfterFirstSend == "recv_first"

(* window_thread: the first channel operation of the event-loop callback.  *)
WindowStart_recv == "recv"

WindowStart == "send"

(* Option<KeyboardInput>: None, or a key event.                            *)
NoInput == [some |-> FALSE, scancode |-> 0, pressed |-> FALSE]

KeyInput(scancode, pressed) ==
    [some |-> TRUE, scancode |-> scancode, pressed |-> pressed]

(* The threads when both have been spawned and compute_thread has run      *)
(* startup(): compute is about to send the first (blank) frame.            *)
(*   compute, window  the channel operation or step each thread is at      *)
(*   frame_ch, input_ch  the channel buffers (frames are numbered)         *)
(*   input_option     compute_thread's local variable                      *)
(*   frames           frames made so far (the blank frame included)        *)
(*   drawn, sent      frames received and inputs sent by the window loop   *)
Threads0 ==
    [compute |-> "send_first", window |-> WindowStart,
     frame_ch |-> <<>>, input_ch |-> <<>>, input_option |-> NoInput,
     frames |-> 1, drawn |-> 0, sent |-> 0]

-----------------------------------------------------------------------------
(* Specification SpecCtl: the two controller ports, driven through the bus *)
(* registers $4016/$4017 and by key events (main.rs compute_thread).       *)

Ports == {1, 2}
PortAddr(p) == IF p = 1 THEN \h4016 ELSE \h4017
Port(p) == IF p = 1 THEN cpu_6502.mem_bus.port1 ELSE cpu_6502.mem_bus.port2

CtlHist0 == [phase |-> "none", n |-> 0, res |-> 0, abit |-> 0, from |-> \h80]

ABit(ct) == IF And(ct.button_states, \h80) # 0 THEN 1 ELSE 0

InitCtl ==
    /\ overflow_checks = FALSE
    /\ cpu_6502 = startup(Rom(NoProgram, HORIZONTAL))
    /\ ctl_hist = [p \in Ports |-> CtlHist0]
    /\ hist = <<>>
    /\ threads = Threads0

CtlRead(p) ==
    /\ ~Fatal(cpu_6502)
    /\ ctl_hist[p].n < MaxReads
    /\ LET r == mem_read(cpu_6502.mem_bus, PortAddr(p))
       IN  /\ cpu_6502' = [cpu_6502 EXCEPT !.mem_bus = r.bus]
           /\ ctl_hist' = [ctl_hist EXCEPT
                             ![p].n = IF ctl_hist[p].phase = "none" THEN 0
                                      ELSE @ + 1,
                             ![p].res = r.res,
                             ![p].abit = ABit(Port(p))]
    /\ UNCHANGED <<overflow_checks, hist, threads>>

CtlWrite(p, data) ==
    /\ ~Fatal(cpu_6502)
    /\ cpu_6502' = [cpu_6502 EXCEPT
                      !.mem_bus = mem_write(cpu_6502.mem_bus, PortAddr(p), data)]
    /\ ctl_hist' =
         IF And(data, 1) # 0
         THEN [ctl_hist EXCEPT ![p] = [phase |-> "strobed", n |-> 0, res |-> 0,
                                       abit |-> 0, from |-> Port(p).shift]]
         ELSE IF ctl_hist[p].phase = "strobed"
         THEN [ctl_hist EXCEPT ![p] = [phase |-> "seq", n |-> 0, res |-> 0,
                                       abit |-> 0, from |-> @.from]]
         ELSE ctl_hist
    /\ UNCHANGED <<overflow_checks, hist, threads>>

KeyboardInput(scancode, pressed) ==
    /\ ~Fatal(cpu_6502)
    /\ LET ct == Controller_keyboard_input(cpu_6502.mem_bus.port1,
                                           scancode, pressed)
       IN  /\ cpu_6502' = [cpu_6502 EXCEPT !.mem_bus.port1 = ct]
           /\ ctl_hist' =
                IF ct.button_states # cpu_6502.mem_bus.port1.button_states
                   /\ ctl_hist[1].phase = "seq"
                THEN [ctl_hist EXCEPT ![1] = CtlHist0]
                ELSE ctl_hist
    /\ UNCHANGED <<overflow_checks, hist, threads>>

NextCtl ==
    \/ \E p \in Ports : CtlRead(p)
    \/ \E p \in Ports, data \in {0, 1, 2} : CtlWrite(p, data)
    \/ \E scancode \in {22, 23, 1}, pressed \in BOOLEAN :
          KeyboardInput(scancode, pressed)

SpecCtl == InitCtl /\ [][NextCtl]_vars

(* The button reported by the k-th read of a sequence (1 = A ... 8 = Right) *)
ButtonBit(ct, k) == IF And(ct.button_states, 2 ^ (8 - k)) # 0 THEN 1 ELSE 0

(* C1 as stated: after a strobe pulse and with the buttons held, reads 1..8 *)
(* return A, B, Select, Start, Up, Down, Left, Right and every read from    *)
(* the ninth on returns the A bit.                                          *)
C1_Original ==
    \A p \in Ports :
        (ctl_hist[p].phase = "seq" /\ ctl_hist[p].n >= 1) =>
            ctl_hist[p].res = IF ctl_hist[p].n <= 8
                              THEN ButtonBit(Port(p), ctl_hist[p].n)
                              ELSE ButtonBit(Port(p), 1)

(* C1 amended: after a strobe pulse and with the buttons held, the k-th     *)
(* read returns the button at position ((k-1) mod 8): reads 1..8 return A,  *)
(* B, Select, Start, Up, Down, Left, Right, the ninth returns A again and   *)
(* the sequence repeats with period 8 until the controller is strobed.      *)
C1_ReadSequence ==
    \A p \in Ports :
        (ctl_hist[p].phase = "seq" /\ ctl_hist[p].n >= 1) =>
            /\ ctl_hist[p].res
                 = ButtonBit(Port(p), ((ctl_hist[p].n - 1) % 8) + 1)
            /\ Port(p).shift = 2 ^ (7 - (ctl_hist[p].n % 8))

C1_Witness ==
    \E p \in Ports :
        /\ ctl_hist[p].phase = "seq" /\ ctl_hist[p].n = 10
        /\ ctl_hist[p].res = 1 /\ ABit(Port(p)) = 0

(* C2: while the strobe flag is set the shift mask is at the A position,    *)
(* and every read returns the A button bit (and so leaves the mask at A);   *)
(* set_strobe puts the mask at A whatever its position was.                 *)
C2_StrobeHoldsA ==
    \A p \in Ports :
        Port(p).strobe =>
            /\ Port(p).shift = \h80
            /\ ctl_hist[p].phase = "strobed"
            /\ ctl_hist[p].n >= 1 => ctl_hist[p].res = ctl_hist[p].abit

C2_Witness ==
    \E p \in Ports :
        /\ Port(p).strobe /\ ctl_hist[p].n >= 3 /\ ctl_hist[p].res = 1
        /\ ctl_hist[p].from # \h80

-----------------------------------------------------------------------------
(* Bus-level specifications: the operations a program issues on the bus    *)
(* (Mem::mem_read, Mem::mem_write), in any order.                          *)

Ppu == cpu_6502.mem_bus.ppu

(* What has been observed of the operations so far:                        *)
(*   op, addr, data, res  the last operation and the value it returned     *)
(*   sync    $2005/$2006 writes since the last $2002 read, modulo 2        *)
(*           (-1: no $2002 read yet); latch0: the latch that read found    *)
(*   phase   progress through "$2002 read, $2006 hi, $2006 lo, $2007 read, *)
(*           $2007 read"; sel: the address selected; buf: the read buffer  *)
(*           when it was selected; byte: the byte stored there             *)
(*   reads   the values of the $2002 reads since the last PPU tick         *)
(*   cleared a $2002 read cleared the vblank bit in lines 241..261 of the  *)
(*           current frame                                                 *)
(*   n, ndma operations and $4014 writes, each counted up to its bound;    *)
(*           frames: completed frames                                      *)
(*   ptr     the VRAM pointer the last operation started from; wptr: the   *)
(*           pointer of the last $2007 write; mem: the bytes written       *)
(*           through $2007 so far, by the cell each address stands for     *)
(*   due     in the current frame the PPU has moved through a dot of the   *)
(*           scanline OAM[0], at or after dot OAM[3], with MASK bit 4 on   *)
Hist0 ==
    [op |-> "none", addr |-> 0, data |-> 0, res |-> 0,
     sync |-> -1, latch0 |-> FALSE,
     phase |-> 0, sel |-> 0, buf |-> 0, byte |-> 0,
     reads |-> <<>>, cleared |-> FALSE,
     n |-> 0, ndma |-> 0, frames |-> 0,
     ptr |-> 0, wptr |-> 0, mem |-> Empty, due |-> FALSE]

(* The byte stored at a PPU address (pattern, name-table or palette).      *)
Peek(p, addr) ==
    IF addr <= \h1FFF
    THEN IF addr < p.chr_rom.len THEN Get(p.chr_rom.data, addr) ELSE 0
    ELSE IF addr <= \h2FFF THEN Get(p.vram, mirror_vram_addr(p, addr))
    ELSE IF addr \in {\h3F10, \h3F14, \h3F18, \h3F1C}
    THEN Get(p.palette_table, And(addr - \h10, \h1F))
    ELSE Get(p.palette_table, And(addr, \h1F))

(* The cell a PPU address stands for: name tables 0..3 are two physical    *)
(* tables (horizontal: 0,1 and 2,3 share; vertical: 0,2 and 1,3 share),    *)
(* the palette repeats every 32 bytes with entries $10/$14/$18/$1C being   *)
(* entries $00/$04/$08/$0C.                                                *)
Cell(mirroring, addr) ==
    IF addr >= \h2000 /\ addr <= \h2FFF
    THEN IF mirroring = HORIZONTAL
         THEN \h2000 + ((addr - \h2000) \div \h800) * \h400 + (addr % \h400)
         ELSE IF mirroring = VERTICAL
         THEN \h2000 + (((addr - \h2000) \div \h400) % 2) * \h400
                     + (addr % \h400)
         ELSE addr
    ELSE IF addr >= \h3F00 /\ addr <= \h3FFF
    THEN \h3F00 + (IF addr % 32 \in {16, 20, 24, 28}
                   THEN (addr % 32) - 16 ELSE addr % 32)
    ELSE -1

(* Frames completed by the ticks of one operation.                         *)
Wraps(log) ==
    Cardinality({i \in DOMAIN log : log[i].op = "tick" /\ log[i].res = TRUE})

(* Whether an operation that took the PPU from p0 to p1 leaves a sprite-0  *)
(* hit due: its ticks moved through a dot at or after OAM[3] of scanline   *)
(* OAM[0] with MASK bit 4 on, or one was due before and the frame goes on. *)
Sprite0Due(due, p0, p1) ==
    LET lo == Get(p1.oam_data, 0) * 341 + Get(p1.oam_data, 3)
        on == And(p1.mask, \h10) # 0
    IN  IF \A i \in DOMAIN p1.log : p1.log[i].op # "tick" THEN due
        ELSE IF Wraps(p1.log) > 0
        THEN on /\ p1.scanlines * 341 + p1.cycles >= lo
        ELSE \/ due
             \/ /\ on
                /\ p0.scanlines * 341 + p0.cycles + 1
                      <= Get(p1.oam_data, 0) * 341 + 340
                /\ p1.scanlines * 341 + p1.cycles >= lo

Observe(h, op, addr, data, res, p0, p1) ==
    [op |-> op, addr |-> addr, data |-> data, res |-> res,
     sync |-> IF op = "read" /\ addr = \h2002 THEN 0
              ELSE IF op = "write" /\ addr \in {\h2005, \h2006} /\ h.sync # -1
              THEN 1 - h.sync
              ELSE h.sync,
     latch0 |-> IF op = "read" /\ addr = \h2002 THEN p0.addr_latch
                ELSE h.latch0,
     phase |-> IF op = "read" /\ addr = \h2002 THEN 1
               ELSE IF op = "write" /\ addr = \h2006 /\ h.phase \in {1, 2}
               THEN h.phase + 1
               ELSE IF op = "read" /\ addr = \h2007 /\ h.phase \in {3, 4}
               THEN h.phase + 1
               ELSE 0,
     sel |-> IF op = "write" /\ addr = \h2006
             THEN IF h.phase = 1 THEN data * 256 ELSE h.sel + data
             ELSE h.sel,
     buf |-> IF op = "write" /\ addr = \h2006 THEN p1.data_buf ELSE h.buf,
     byte |-> IF op = "write" /\ addr = \h2006 /\ h.phase = 2
              THEN Peek(p1, h.sel + data)
              ELSE h.byte,
     reads |-> IF \E i \in DOMAIN p1.log : p1.log[i].op = "tick" THEN <<>>
               ELSE IF op = "read" /\ addr = \h2002
               THEN IF Len(h.reads) < 2 THEN Append(h.reads, res)
                    ELSE <<h.reads[2], res>>
               ELSE h.reads,
     cleared |-> IF Wraps(p1.log) > 0 THEN FALSE
                 ELSE IF op = "read" /\ addr = \h2002 /\ And(res, \h80) # 0
                         /\ p0.scanlines >= 241 /\ p0.scanlines <= 261
                 THEN TRUE
                 ELSE h.cleared,
     n |-> IF h.n < MaxBusOps THEN h.n + 1 ELSE h.n,
     ndma |-> IF op = "write" /\ addr = \h4014 /\ h.ndma < MaxDma
              THEN h.ndma + 1 ELSE h.ndma,
     frames |-> h.frames + Wraps(p1.log),
     ptr |-> p0.addr_hi * 256 + p0.addr_lo,
     wptr |-> IF op = "write" /\ addr = \h2007
              THEN p0.addr_hi * 256 + p0.addr_lo ELSE h.wptr,
     mem |-> IF op = "write" /\ addr = \h2007
                /\ Cell(p0.mirroring, p0.addr_hi * 256 + p0.addr_lo) # -1
             THEN Put(h.mem,
                      Cell(p0.mirroring, p0.addr_hi * 256 + p0.addr_lo), data)
             ELSE h.mem,
     due |-> Sprite0Due(h.due, p0, p1)]

BusRead(addr) ==
    /\ ~Fatal(cpu_6502)
    /\ LET r == mem_read(ClearLog(cpu_6502).mem_bus, addr)
       IN  /\ cpu_6502' = [cpu_6502 EXCEPT !.mem_bus = r.bus]
           /\ hist' = Observe(hist, "read", addr, 0, r.res, Ppu, r.bus.ppu)
    /\ UNCHANGED <<overflow_checks, ctl_hist, threads>>

BusWrite(addr, data) ==
    /\ ~Fatal(cpu_6502)
    /\ LET b == mem_write(ClearLog(cpu_6502).mem_bus, addr, data)
       IN  /\ cpu_6502' = [cpu_6502 EXCEPT !.mem_bus = b]
           /\ hist' = Observe(hist, "write", addr, data, 0, Ppu, b.ppu)
    /\ UNCHANGED <<overflow_checks, ctl_hist, threads>>

(* The images the bus-level specifications start from.                     *)
InitBus(mirrorings) ==
    /\ overflow_checks \in BOOLEAN
    /\ \E m \in mirrorings : cpu_6502 = startup(Rom(NoProgram, m))
    /\ ctl_hist = [p \in Ports |-> CtlHist0]
    /\ hist = Hist0
    /\ threads = Threads0

-----------------------------------------------------------------------------
(* Specification SpecVram: the PPU address, scroll, status and data ports. *)

NextVram ==
    \/ hist.n < MaxBusOps /\ BusRead(\h2002)
    \/ hist.n < MaxBusOps /\ BusRead(\h2007)
    \/ \E data \in {\h28, \h3F} : hist.n < MaxBusOps /\ BusWrite(\h2006, data)
    \/ \E data \in {\h7D} : hist.n < MaxBusOps /\ BusWrite(\h2005, data)
    \/ \E data \in {\h5A} : hist.n < MaxBusOps /\ BusWrite(\h2007, data)

SpecVram == InitBus({HORIZONTAL, VERTICAL, FOUR_SCREEN}) /\ [][NextVram]_vars

(* C8: $2005 and $2006 share one write latch. Once a $2002 read has reset   *)
(* it, every write to either port toggles it: the first write after the     *)
(* read (and every second one after it, to either port) goes to the high    *)
(* address byte or to X scroll, the others go to the low address byte or to *)
(* Y scroll, however many port writes preceded the read.                    *)
C8_SharedLatch ==
    [][/\ (hist'.op = "read" /\ hist'.addr = \h2002) => ~Ppu'.addr_latch
       /\ (hist'.op = "write" /\ hist'.addr \in {\h2005, \h2006}
           /\ hist.sync # -1) =>
             /\ Ppu.addr_latch = (hist.sync = 1)
             /\ Ppu'.addr_latch = (hist.sync = 0)
             /\ (hist'.addr = \h2006 /\ hist.sync = 0) =>
                    /\ Ppu'.addr_hi = hist'.data
                    /\ Ppu'.addr_lo = Ppu.addr_lo
             /\ (hist'.addr = \h2006 /\ hist.sync = 1) =>
                    /\ Ppu'.addr_lo = hist'.data
                    /\ Ppu'.addr_hi = Ppu.addr_hi
             /\ (hist'.addr = \h2005 /\ hist.sync = 0) =>
                    /\ Ppu'.fetch_scroll_x = hist'.data
                    /\ Ppu'.fetch_scroll_y = Ppu.fetch_scroll_y
             /\ (hist'.addr = \h2005 /\ hist.sync = 1) =>
                    /\ Ppu'.fetch_scroll_y = hist'.data
                    /\ Ppu'.fetch_scroll_x = Ppu.fetch_scroll_x]_vars

(* A $2002 read found the latch set (an odd number of port writes before    *)
(* it); a $2005 write and then a $2006 write followed, and the $2006 write  *)
(* went to the low address byte.                                            *)
C8_Witness ==
    /\ hist.latch0 /\ hist.sync = 0
    /\ hist.op = "write" /\ hist.addr = \h2006 /\ hist.data = \h3F
    /\ Ppu.addr_lo = \h3F /\ Ppu.addr_hi = \h28
    /\ Ppu.fetch_scroll_x = \h7D /\ Ppu.fetch_scroll_y = 0

(* C9: after a $2002 read and two $2006 writes selecting an address in      *)
(* $0000-$2FFF, the first $2007 read returns the old read buffer and        *)
(* latches the addressed byte, and the next $2007 read returns that byte;   *)
(* for an address in $3F00-$3FFF the read returns the palette byte.         *)
C9_BufferedRead ==
    /\ (hist.phase = 4 /\ hist.sel <= \h2FFF) =>
          /\ ~Fatal(cpu_6502)
          /\ hist.res = hist.buf
          /\ Ppu.data_buf = hist.byte
    /\ (hist.phase = 5 /\ hist.sel <= \h2FFF) =>
          /\ ~Fatal(cpu_6502)
          /\ hist.res = hist.byte
    /\ (hist.phase = 4 /\ hist.sel >= \h3F00 /\ hist.sel <= \h3FFF) =>
          /\ ~Fatal(cpu_6502)
          /\ hist.res = hist.byte

-----------------------------------------------------------------------------
(* Specification SpecMem: name-table and palette memory through $2006 and  *)
(* $2007.                                                                  *)

NextMem ==
    \/ \E data \in {\h20, \h24, \h28, \h2C, \h3F} :
          hist.n < MaxBusOps /\ ~Ppu.addr_latch /\ BusWrite(\h2006, data)
    \/ \E data \in {\h10, \h30} :
          hist.n < MaxBusOps /\ Ppu.addr_latch /\ BusWrite(\h2006, data)
    \/ \E data \in {\h5A} :
          hist.n < MaxBusOps /\ BusWrite(\h2007, data)
    \/ hist.n < MaxBusOps /\ BusRead(\h2007)

SpecMem == InitBus({HORIZONTAL, VERTICAL}) /\ [][NextMem]_vars

(* C11: name-table mirroring. Under horizontal mirroring tables 0 and 1    *)
(* are one physical table and tables 2 and 3 the other; under vertical     *)
(* mirroring tables 0 and 2 are one and tables 1 and 3 the other: a $2007  *)
(* read at an address in $2000-$2FFF fetches the byte last written through *)
(* $2007 at an address of the same class (zero when none was), whatever    *)
(* was written at addresses of the other class.                            *)
C11_Mirroring ==
    (hist.op = "read" /\ hist.addr = \h2007
     /\ hist.ptr >= \h2000 /\ hist.ptr <= \h2FFF) =>
        /\ ~Fatal(cpu_6502)
        /\ Ppu.data_buf = Get(hist.mem, Cell(Ppu.mirroring, hist.ptr))

(* A byte written at $2010 (table 0) was fetched at $2410 (table 1) under  *)
(* horizontal mirroring.                                                   *)
C11_Witness ==
    /\ Ppu.mirroring = HORIZONTAL
    /\ hist.op = "read" /\ hist.addr = \h2007
    /\ hist.wptr = \h2010 /\ hist.ptr = \h2410
    /\ Ppu.data_buf = \h5A

(* C12: palette addressing. A $2007 read at a pointer in $3F00-$3FFF       *)
(* returns the byte last written through $2007 at any pointer of that      *)
(* range standing for the same palette entry: congruent modulo 32, with    *)
(* entries $10, $14, $18, $1C being entries $00, $04, $08, $0C.            *)
C12_Palette ==
    (hist.op = "read" /\ hist.addr = \h2007
     /\ hist.ptr >= \h3F00 /\ hist.ptr <= \h3FFF) =>
        /\ ~Fatal(cpu_6502)
        /\ hist.res = Get(hist.mem, Cell(Ppu.mirroring, hist.ptr))

-----------------------------------------------------------------------------
(* Specification SpecOam: OAMADDR, work RAM and OAM DMA.                   *)

NextOam ==
    \/ \E data \in {0, 1} : hist.n < MaxBusOps /\ BusWrite(\h2003, data)
    \/ \E addr \in {\h0200, \h0AFF}, data \in {\h5A} :
          hist.n < MaxBusOps /\ BusWrite(addr, data)
    \/ \E page \in {\h02, \h0A} :
          hist.n < MaxBusOps /\ hist.ndma < MaxDma /\ BusWrite(\h4014, page)
    \/ hist.n < MaxBusOps /\ BusRead(\h2004)

SpecOam == InitBus({HORIZONTAL}) /\ [][NextOam]_vars

(* C10: after a write of any page P to $4014, whatever OAMADDR is,          *)
(* OAM[(OAMADDR+i) mod 256] = RAM[(P*256+i) & $07FF] for all i in 0..255,   *)
(* and the write completes without a fatal error.                           *)
C10_OamDma ==
    (hist.op = "write" /\ hist.addr = \h4014) =>
        /\ ~Fatal(cpu_6502)
        /\ \A i \in 0 .. 255 :
              Get(Ppu.oam_data, (Ppu.oam_addr + i) % 256)
                = Get(cpu_6502.mem_bus.cpu_vram, And(hist.data * 256 + i, \h07FF))

-----------------------------------------------------------------------------
(* Specification SpecVbl: the status register over a frame. Time passes by *)
(* OAM DMA (513 or 514 dots in three ticks).                               *)

NextVbl ==
    \/ BusRead(\h2002)
    \/ BusWrite(\h2001, \h10)
    \/ hist.frames < MaxVblFrames /\ BusWrite(\h4014, \h02)

SpecVbl == InitBus({HORIZONTAL}) /\ [][NextVbl]_vars

(* C6: a read of $2002 returns bit 7 equal to the vblank bit held just      *)
(* before the read, clears the vblank bit and leaves bits 5 and 6 as they   *)
(* were; a second read with no PPU tick in between returns bit 7 = 0.       *)
C6_StatusRead ==
    [][(hist'.op = "read" /\ hist'.addr = \h2002) =>
          /\ And(hist'.res, \h80) = And(Ppu.stat, \h80)
          /\ And(Ppu'.stat, \h80) = 0
          /\ And(Ppu'.stat, \h60) = And(Ppu.stat, \h60)
          /\ Len(hist.reads) >= 1 => And(hist'.res, \h80) = 0]_vars

(* Two $2002 reads with no tick between them: the first returned the        *)
(* vblank bit set, the second returned it clear, and the sprite-0 bit is    *)
(* still set.                                                               *)
C6_Witness ==
    /\ hist.op = "read" /\ hist.addr = \h2002
    /\ Len(hist.reads) = 2
    /\ And(hist.reads[1], \h80) # 0 /\ And(hist.reads[2], \h80) = 0

(* C7: the vblank bit is set once per frame, when the scanline counter      *)
(* reaches 241: once a $2002 read has cleared it during the vblank lines,   *)
(* it stays clear through every later tick of that frame.                   *)
C7_VblankOncePerFrame ==
    hist.cleared => And(Ppu.stat, \h80) = 0

(* C17: the sprite-0-hit bit (status bit 6) is set in a frame exactly when *)
(* MASK bit 4 is on and the PPU has reached scanline OAM[0] at a dot at or *)
(* after OAM[3]; once set it stays set until the scanline counter wraps.   *)
C17_Sprite0Hit ==
    ~Fatal(cpu_6502) => ((And(Ppu.stat, \h40) # 0) <=> hist.due)

-----------------------------------------------------------------------------
(* Specification SpecNmi: CTRL writes and status reads over a frame. Time  *)
(* passes by OAM DMA.                                                      *)

NextNmi ==
    \/ \E data \in {\h00, \h80} : BusWrite(\h2000, data)
    \/ BusRead(\h2002)
    \/ hist.frames < MaxVblFrames /\ BusWrite(\h4014, \h02)

SpecNmi == InitBus({HORIZONTAL}) /\ [][NextNmi]_vars

(* C18: a write to CTRL ($2000) raises the PPU's NMI flag if and only if   *)
(* it changes bit 7 from 0 to 1 while the vblank bit of the status         *)
(* register is set; any other CTRL write leaves the NMI flag unchanged.    *)
C18_CtrlNmi ==
    [][(hist'.op = "write" /\ hist'.addr = \h2000) =>
          Ppu'.nmi_interrupt
            = (\/ Ppu.nmi_interrupt
               \/ /\ And(Ppu.ctrl, \h80) = 0
                  /\ And(hist'.data, \h80) # 0
                  /\ And(Ppu.stat, \h80) # 0)]_vars

(* A CTRL write during vblank raised the NMI flag.                         *)
C18_Witness ==
    /\ hist.op = "write" /\ hist.addr = \h2000 /\ hist.data = \h80
    /\ And(Ppu.stat, \h80) # 0
    /\ \E i \in DOMAIN Ppu.log :
          Ppu.log[i].op = "ctrl_write" /\ ~Ppu.log[i].nmi0 /\ Ppu.log[i].nmi1

-----------------------------------------------------------------------------
(* Specification SpecCPU: the CPU runs a program, one interpret() call per *)
(* step (main.rs update).                                                  *)

(* STA $4014 ; JMP at -- a loop in which time passes by OAM DMA            *)
WaitLoop(at) == <<\h8D, \h14, \h40, \h4C, at % 256, at \div 256>>

(* LDA #$80 ; STA $2000 -- enable the vblank NMI                           *)
EnableNmi == <<\hA9, \h80, \h8D, \h00, \h20>>

(* The programs considered: main waits with NMI off, waits with NMI on, or *)
(* turns NMI on and executes BRK; the BRK handler waits; the NMI handler   *)
(* returns at once (RTI) or waits.                                         *)
Programs ==
    {[main |-> WaitLoop(ResetVector),
      brk |-> WaitLoop(BrkVector), nmi |-> <<\h40>>],
     [main |-> EnableNmi \o WaitLoop(ResetVector + 5),
      brk |-> WaitLoop(BrkVector), nmi |-> <<\h40>>],
     [main |-> EnableNmi \o WaitLoop(ResetVector + 5),
      brk |-> WaitLoop(BrkVector), nmi |-> WaitLoop(NmiVector)],
     [main |-> EnableNmi \o <<\h00>>,
      brk |-> WaitLoop(BrkVector), nmi |-> <<\hEA, \h40>>]}

(* What has been observed of the interpret() calls so far:                 *)
(*   op        "nmi" when the last call entered the NMI handler            *)
(*   services  NMI entries so far                                          *)
(*   entries   NMI entries since the PPU's NMI flag was last deasserted    *)
(*   low_seen  since the last NMI entry, a call has found the flag         *)
(*             deasserted (TRUE before the first entry)                    *)
(*   frames    completed frames                                            *)
CpuHist0 ==
    [op |-> "none", services |-> 0, entries |-> 0, low_seen |-> TRUE,
     frames |-> 0]

(* The NMI flag was deasserted at some point of a call that began in c0    *)
(* and left the PPU call log `log`.                                        *)
FlagLow(c0, log) ==
    \/ ~poll_nmi_status(c0.mem_bus)
    \/ \E i \in DOMAIN log : ~log[i].nmi1

CpuObserve(h, c0, c1) ==
    [op |-> IF c0.reg_pc >= \hFFFF THEN "halt"
            ELSE IF nmi_pending(c0) THEN "nmi" ELSE "instr",
     services |-> IF c0.reg_pc < \hFFFF /\ nmi_pending(c0)
                  THEN h.services + 1 ELSE h.services,
     entries |-> IF FlagLow(c0, c1.mem_bus.ppu.log) THEN 0
                 ELSE IF c0.reg_pc < \hFFFF /\ nmi_pending(c0)
                 THEN h.entries + 1 ELSE h.entries,
     low_seen |-> IF c0.reg_pc < \hFFFF /\ nmi_pending(c0) THEN FALSE
                  ELSE IF ~poll_nmi_status(c0.mem_bus) THEN TRUE
                  ELSE h.low_seen,
     frames |-> h.frames + Wraps(c1.mem_bus.ppu.log)]

InitCPU ==
    /\ overflow_checks \in BOOLEAN
    /\ \E program \in Programs :
          cpu_6502 = startup(Rom(program, HORIZONTAL))
    /\ ctl_hist = [p \in Ports |-> CtlHist0]
    /\ hist = CpuHist0
    /\ threads = Threads0

Interpret ==
    /\ ~Fatal(cpu_6502)
    /\ hist.frames < MaxFrames
    /\ cpu_6502' = interpret(ClearLog(cpu_6502))
    /\ hist' = CpuObserve(hist, cpu_6502, cpu_6502')
    /\ UNCHANGED <<overflow_checks, ctl_hist, threads>>

SpecCPU == InitCPU /\ [][Interpret]_vars

(* The PPU's position in the frame, in dots.                               *)
Pos(p) == p.scanlines * 341 + p.cycles
FrameDots == 262 * 341

Stack(c, sp) == Get(c.mem_bus.cpu_vram, \h0100 + ((sp + 256) % 256))

(* C3: NMI is edge-triggered at the CPU: it enters the NMI handler at most  *)
(* once while the PPU's NMI flag stays asserted, and enters it again only   *)
(* after an interpret() call has found the flag deasserted.                 *)
C3_NmiEdge ==
    [][/\ hist'.entries <= 1
       /\ hist'.op = "nmi" => (hist.low_seen /\ hist.entries = 0)]_vars

(* The handler has been entered a second time, in the second frame.         *)
C3_Witness ==
    hist.op = "nmi" /\ hist.services = 2 /\ hist.entries = 1

(* C4: when the CPU services an NMI it pushes PC high byte then low byte,   *)
(* then a copy of P with bit 5 set and bit 4 clear, sets InterruptDisable   *)
(* and loads PC from $FFFA/$FFFB.                                           *)
C4_NmiEntry ==
    [][(hist'.op = "nmi" /\ ~Fatal(cpu_6502')) =>
          /\ Stack(cpu_6502', cpu_6502.reg_sp) = cpu_6502.reg_pc \div 256
          /\ Stack(cpu_6502', cpu_6502.reg_sp - 1) = cpu_6502.reg_pc % 256
          /\ Stack(cpu_6502', cpu_6502.reg_sp - 2)
               = And(Or(cpu_6502.reg_stat, \h20), \hEF)
          /\ cpu_6502'.reg_sp = (cpu_6502.reg_sp + 253) % 256
          /\ And(cpu_6502'.reg_stat, \h04) # 0
          /\ cpu_6502'.reg_pc = NmiVector]_vars

(* C5: in every interpret() step the PPU advances exactly 3 dots for each   *)
(* cycle the step adds to tot_cycles.                                       *)
C5_LockStep ==
    [][~Fatal(cpu_6502') =>
          (Pos(Ppu') + FrameDots - Pos(Ppu)) % FrameDots
            = 3 * (cpu_6502'.tot_cycles - cpu_6502.tot_cycles)]_vars

(* C16: servicing an NMI executes no instruction in that interpret() step  *)
(* (PC is left at the handler's first instruction) and adds exactly 7 CPU  *)
(* cycles to tot_cycles, advancing the PPU by 21 dots.                     *)
C16_NmiCycles ==
    [][(hist'.op = "nmi" /\ ~Fatal(cpu_6502')) =>
          /\ cpu_6502'.reg_pc = NmiVector
          /\ cpu_6502'.reg_a = cpu_6502.reg_a
          /\ cpu_6502'.tot_cycles = cpu_6502.tot_cycles + 7
          /\ (Pos(Ppu') + FrameDots - Pos(Ppu)) % FrameDots = 21]_vars

-----------------------------------------------------------------------------
(* Specification SpecInstr: straight-line programs, one interpret() call   *)
(* per step, from reset until the program leaves its main code.            *)

(* LDA #a ; ADC #m ; ADC #m2 ; LDA #v ; CLI or NOP ; BRK                   *)
Arith(a, m, m2, v, op) ==
    <<\hA9, a, \h69, m, \h69, m2, \hA9, v, op, \h00>>

ArithPrograms ==
    {[main |-> Arith(a, m, m2, v, op), brk |-> <<>>, nmi |-> <<>>] :
        a \in {\h00, \h50, \hFF}, m \in {\h00, \h50, \hB0},
        m2 \in {\h00, \h50, \hFF}, v \in {\h00, \h01, \h80},
        op \in {\h58, \hEA}}

InitInstr ==
    /\ overflow_checks \in BOOLEAN
    /\ \E program \in ArithPrograms :
          cpu_6502 = startup(Rom(program, HORIZONTAL))
    /\ ctl_hist = [p \in Ports |-> CtlHist0]
    /\ hist = CpuHist0
    /\ threads = Threads0

(* The opcode and operand bytes at the program counter.                    *)
Code(c) == read_prg_rom(c.mem_bus, c.reg_pc)
Operand(c) == read_prg_rom(c.mem_bus, c.reg_pc + 1)

InterpretMain ==
    /\ ~Fatal(cpu_6502)
    /\ cpu_6502.reg_pc >= ResetVector /\ cpu_6502.reg_pc < ResetVector + 10
    /\ cpu_6502' = interpret(ClearLog(cpu_6502))
    /\ hist' = CpuObserve(hist, cpu_6502, cpu_6502')
    /\ UNCHANGED <<overflow_checks, ctl_hist, threads>>

SpecInstr == InitInstr /\ [][InterpretMain]_vars

(* C13: ADC. For all A, M and carry C, after ADC the accumulator is        *)
(* (A+M+C) mod 256, the Carry flag is (A+M+C) >> 8 and the Overflow flag   *)
(* is set exactly when (A xor A') and (M xor A') and $80 is non-zero,      *)
(* A' being the new accumulator.                                           *)
C13_Adc ==
    [][(Code(cpu_6502) = \h69 /\ hist'.op = "instr") =>
          /\ ~Fatal(cpu_6502')
          /\ cpu_6502'.reg_a
                = (cpu_6502.reg_a + Operand(cpu_6502)
                   + And(cpu_6502.reg_stat, \h01)) % 256
          /\ And(cpu_6502'.reg_stat, \h01)
                = (cpu_6502.reg_a + Operand(cpu_6502)
                   + And(cpu_6502.reg_stat, \h01)) \div 256
          /\ (And(cpu_6502'.reg_stat, \h40) # 0)
                = (And(And(Xor(cpu_6502.reg_a, cpu_6502'.reg_a),
                           Xor(Operand(cpu_6502), cpu_6502'.reg_a)),
                       \h80) # 0)]_vars

(* C14: LDA #v sets A = v, Z = (v = 0), N = bit 7 of v and leaves the      *)
(* flags C, I, D, B, the unused bit and V, the registers X, Y and SP and   *)
(* memory unchanged, whatever the flags were.                              *)
C14_LdaImmediate ==
    [][(Code(cpu_6502) = \hA9 /\ hist'.op = "instr") =>
          /\ ~Fatal(cpu_6502')
          /\ cpu_6502'.reg_a = Operand(cpu_6502)
          /\ (And(cpu_6502'.reg_stat, \h02) # 0) = (Operand(cpu_6502) = 0)
          /\ (And(cpu_6502'.reg_stat, \h80) # 0)
                = (Operand(cpu_6502) >= \h80)
          /\ And(cpu_6502'.reg_stat, \h7D) = And(cpu_6502.reg_stat, \h7D)
          /\ cpu_6502'.reg_x = cpu_6502.reg_x
          /\ cpu_6502'.reg_y = cpu_6502.reg_y
          /\ cpu_6502'.reg_sp = cpu_6502.reg_sp
          /\ cpu_6502'.mem_bus.cpu_vram = cpu_6502.mem_bus.cpu_vram
          /\ cpu_6502'.mem_bus.prg_rom = cpu_6502.mem_bus.prg_rom
          /\ Ppu'.vram = Ppu.vram
          /\ Ppu'.palette_table = Ppu.palette_table
          /\ Ppu'.oam_data = Ppu.oam_data]_vars

(* LDA #$80 has executed with Carry and Overflow set before it: it set N,  *)
(* left Z clear and kept C and V.                                          *)
C14_Witness ==
    /\ hist.op = "instr" /\ cpu_6502.reg_pc = ResetVector + 8
    /\ cpu_6502.reg_a = \h80
    /\ And(cpu_6502.reg_stat, \hC3) = \hC1

(* C15: BRK pushes the return PC (high byte, then low byte) and then a     *)
(* copy of P with bits 4 and 5 set, sets the InterruptDisable flag (bit 2) *)
(* in P and loads PC from the vector at $FFFE/$FFFF.                       *)
C15_Brk ==
    [][(Code(cpu_6502) = \h00 /\ hist'.op = "instr") =>
          /\ ~Fatal(cpu_6502')
          /\ Stack(cpu_6502', cpu_6502.reg_sp)
                = (cpu_6502.reg_pc + 1) \div 256
          /\ Stack(cpu_6502', cpu_6502.reg_sp - 1)
                = (cpu_6502.reg_pc + 1) % 256
          /\ Stack(cpu_6502', cpu_6502.reg_sp - 2)
                = Or(cpu_6502.reg_stat, \h30)
          /\ cpu_6502'.reg_sp = (cpu_6502.reg_sp + 253) % 256
          /\ And(cpu_6502'.reg_stat, \h04) # 0
          /\ cpu_6502'.reg_pc = BrkVector]_vars

-----------------------------------------------------------------------------
(* Specification SpecLoops: compute_thread and window_thread (main.rs).    *)
(* update() is one step that makes the next frame; the emulation it runs   *)
(* is followed by SpecCPU.                                                 *)

InitLoops ==
    /\ overflow_checks = FALSE
    /\ cpu_6502 = startup(Rom(NoProgram, HORIZONTAL))
    /\ ctl_hist = [p \in Ports |-> CtlHist0]
    /\ hist = <<>>
    /\ threads = Threads0

(* tx.send(frame.data): blocks while the frame channel holds a frame.      *)
ComputeSend ==
    /\ threads.compute \in {"send_first", "send"}
    /\ Len(threads.frame_ch) < 1
    /\ threads' = [threads EXCEPT
                     !.frame_ch = Append(@, threads.frames - 1),
                     !.compute = IF threads.compute = "send_first"
                                 THEN AfterFirstSend ELSE "recv"]
    /\ UNCHANGED <<cpu_6502, overflow_checks, ctl_hist, hist>>

(* input_option = rx.recv().unwrap(): blocks while the input channel is    *)
(* empty.                                                                  *)
ComputeRecv ==
    /\ threads.compute \in {"recv_first", "recv"}
    /\ Len(threads.input_ch) > 0
    /\ threads' = [threads EXCEPT
                     !.input_option = Head(threads.input_ch),
                     !.input_ch = Tail(@),
                     !.compute = IF threads.compute = "recv_first"
                                 THEN "recv" ELSE "update"]
    /\ UNCHANGED <<cpu_6502, overflow_checks, ctl_hist, hist>>

(* The match on input_option and update(&mut cpu_6502, &mut frame).        *)
ComputeUpdate ==
    /\ threads.compute = "update"
    /\ cpu_6502' =
          IF threads.input_option.some
          THEN [cpu_6502 EXCEPT !.mem_bus.port1 =
                   Controller_keyboard_input(@, threads.input_option.scancode,
                                             threads.input_option.pressed)]
          ELSE cpu_6502
    /\ threads' = [threads EXCEPT !.frames = @ + 1, !.compute = "send"]
    /\ UNCHANGED <<overflow_checks, ctl_hist, hist>>

(* tx.send(input_option): blocks while the input channel holds an input.   *)
WindowSend ==
    /\ threads.window = "send"
    /\ threads.sent < MaxIter
    /\ Len(threads.input_ch) < 1
    /\ \E input \in {NoInput, KeyInput(22, TRUE), KeyInput(22, FALSE)} :
          threads' = [threads EXCEPT !.input_ch = Append(@, input),
                                     !.sent = @ + 1,
                                     !.window = "recv"]
    /\ UNCHANGED <<cpu_6502, overflow_checks, ctl_hist, hist>>

(* renderer.draw(&rx.recv().unwrap()): blocks while the frame channel is   *)
(* empty.                                                                  *)
WindowRecv ==
    /\ threads.window = "recv"
    /\ Len(threads.frame_ch) > 0
    /\ threads' = [threads EXCEPT !.frame_ch = Tail(@),
                                  !.drawn = @ + 1,
                                  !.window = "send"]
    /\ UNCHANGED <<cpu_6502, overflow_checks, ctl_hist, hist>>

compute_thread == ComputeSend \/ ComputeRecv \/ ComputeUpdate

window_thread == WindowSend \/ WindowRecv

NextLoops == compute_thread \/ window_thread

(* Both threads run: the operating system schedules each of them, and      *)
(* update() returns.                                                       *)
SpecLoops ==
    InitLoops /\ [][NextLoops]_vars
    /\ WF_vars(compute_thread) /\ WF_vars(window_thread)

(* A thread is blocked when the channel operation it is at cannot proceed. *)
ComputeBlocked ==
    \/ threads.compute \in {"send_first", "send"}
       /\ Len(threads.frame_ch) >= 1
    \/ threads.compute \in {"recv_first", "recv"} /\ threads.input_ch = <<>>

WindowBlocked ==
    \/ threads.window = "send" /\ Len(threads.input_ch) >= 1
    \/ threads.window = "recv" /\ threads.frame_ch = <<>>

C20_Backpressure ==
    /\ threads.frames - threads.drawn <= 1
    /\ threads.compute = "update" => threads.drawn = threads.frames

(* The compute loop starts on its third frame, the window loop having      *)
(* received the blank frame and the first two.                             *)
C20_Witness ==
    threads.compute = "update" /\ threads.frames = 3 /\ threads.drawn = 3

-----------------------------------------------------------------------------
(* Specification SpecCancel: the two loops with an exit request. On        *)
(* WindowEvent::CloseRequested the callback sets ControlFlow::Exit; the    *)
(* event loop then ends and the window thread's channel endpoints go away. *)

(* The event loop ends between two callbacks.                              *)
WindowExit ==
    /\ threads.window = WindowStart
    /\ threads' = [threads EXCEPT !.window = "exited"]
    /\ UNCHANGED <<cpu_6502, overflow_checks, ctl_hist, hist>>

(* rx.recv() returns Err when the sender is gone and no input is buffered. *)
RecvDisconnected_never == FALSE

RecvDisconnected ==
    threads.window = "exited" /\ threads.input_ch = <<>>

(* rx.recv().unwrap() on Err: compute_thread panics and ends.              *)
ComputeRecvFail ==
    /\ threads.compute \in {"recv_first", "recv"}
    /\ RecvDisconnected
    /\ threads' = [threads EXCEPT !.compute = "done"]
    /\ UNCHANGED <<cpu_6502, overflow_checks, ctl_hist, hist>>

(* tx.send(..).unwrap() on Err (the receiver is gone): compute_thread      *)
(* panics and ends.                                                        *)
ComputeSendFail ==
    /\ threads.compute \in {"send_first", "send"}
    /\ threads.window = "exited"
    /\ threads' = [threads EXCEPT !.compute = "done"]
    /\ UNCHANGED <<cpu_6502, overflow_checks, ctl_hist, hist>>

NextCancel ==
    \/ (threads.window # "exited" /\ ComputeSend)
    \/ ComputeRecv
    \/ ComputeUpdate
    \/ ComputeRecvFail
    \/ ComputeSendFail
    \/ WindowSend
    \/ WindowRecv
    \/ WindowExit

SpecCancel ==
    InitLoops /\ [][NextCancel]_vars
    /\ WF_vars(ComputeSend \/ ComputeRecv \/ ComputeUpdate
               \/ ComputeRecvFail \/ ComputeSendFail)
    /\ WF_vars(WindowSend \/ WindowRecv)

(* C21: once the window loop has exited and its channel endpoints are      *)
(* closed, the compute loop finds a send or receive failed and ends: it    *)
(* does not stay blocked on a channel and computes no further frame.       *)
C21_Cancellation ==
    /\ (threads.window = "exited") ~> (threads.compute = "done")
    /\ [][threads.window = "exited" => threads'.frames = threads.frames]_vars

(* The compute loop has ended on a failed receive after three frames were  *)
(* drawn.                                                                  *)
C21_Witness ==
    /\ threads.window = "exited" /\ threads.compute = "done"
    /\ threads.drawn = 3 /\ threads.frames = 3

-----------------------------------------------------------------------------
(* Specification SpecRom: Rom::new applied to raw images. An image is      *)
(* [len, data]: its length and its non-zero bytes.                         *)

NES_TAG == <<\h4E, \h45, \h53, \h1A>>
PRG_ROM_PAGE_SIZE == \h4000
CHR_ROM_PAGE_SIZE == \h2000

(* raw[from..to].to_vec(); the slice panics when to > raw.len().           *)
Slice(raw, from, to) ==
    [len |-> to - from,
     data |-> [i \in {k - from : k \in {j \in DOMAIN raw.data :
                                            j >= from /\ j < to}}
                 |-> raw.data[i + from]]]

RomMapper(raw) == Or(And(Get(raw.data, 7), \hF0), Shr(Get(raw.data, 6), 4))

RomMirroring(raw) ==
    IF And(Get(raw.data, 6), \h08) # 0 THEN FOUR_SCREEN
    ELSE IF And(Get(raw.data, 6), \h01) # 0 THEN VERTICAL
    ELSE HORIZONTAL

PrgRomStart(raw) == \h0010 + \h0080 * And(Get(raw.data, 6), \h04)

(* The u16 sizes and offsets as computed without wrapping.                 *)
PrgRomSize(raw) == Get(raw.data, 4) * PRG_ROM_PAGE_SIZE
ChrRomSize(raw) == Get(raw.data, 5) * CHR_ROM_PAGE_SIZE
PrgRomEnd(raw) == PrgRomStart(raw) + (PrgRomSize(raw) % 65536)
ChrRomEnd(raw) == (PrgRomEnd(raw) % 65536) + (ChrRomSize(raw) % 65536)

RomOverflows(raw) ==
    \/ PrgRomSize(raw) > 65535 \/ ChrRomSize(raw) > 65535
    \/ PrgRomEnd(raw) > 65535 \/ ChrRomEnd(raw) > 65535

NoRom ==
    [fatal |-> TRUE, prg_rom |-> [len |-> 0, data |-> Empty],
     chr_rom |-> [len |-> 0, data |-> Empty], mapper |-> 0,
     screen_mirroring |-> HORIZONTAL]

(* The mapper id is checked as well.                                       *)
RomRejected_mapper(raw) ==
    \/ \E i \in 1 .. 4 : Get(raw.data, i - 1) # NES_TAG[i]
    \/ And(Shr(Get(raw.data, 7), 2), \h03) # 0
    \/ RomMapper(raw) # 0

(* The two header checks of Rom::new.                                      *)
RomRejected(raw) ==
    \/ \E i \in 1 .. 4 : Get(raw.data, i - 1) # NES_TAG[i]
    \/ And(Shr(Get(raw.data, 7), 2), \h03) # 0

(* Rom::new; fatal stands for a panic (a failed header check, an           *)
(* arithmetic overflow with overflow checks, a slice out of range).        *)
Rom_new(raw, checks) ==
    IF RomRejected(raw) THEN NoRom
    ELSE IF checks /\ RomOverflows(raw) THEN NoRom
    ELSE IF PrgRomEnd(raw) % 65536 < PrgRomStart(raw)
            \/ PrgRomEnd(raw) % 65536 > raw.len
            \/ ChrRomEnd(raw) % 65536 < PrgRomEnd(raw) % 65536
            \/ ChrRomEnd(raw) % 65536 > raw.len
    THEN NoRom
    ELSE [fatal |-> FALSE,
          prg_rom |-> Slice(raw, PrgRomStart(raw), PrgRomEnd(raw) % 65536),
          chr_rom |-> Slice(raw, PrgRomEnd(raw) % 65536,
                            ChrRomEnd(raw) % 65536),
          mapper |-> RomMapper(raw),
          screen_mirroring |-> RomMirroring(raw)]

(* Raw images: a 16-byte header drawn from a few values per byte, followed *)
(* either by the trainer, PRG and CHR bytes the header announces or by     *)
(* nothing.                                                                *)
RawHeaders ==
    {<<b0, \h45, \h53, b3, b4, b5, b6, b7>> :
        b0 \in {\h4E, \h00}, b3 \in {\h1A, \h00}, b4 \in {1, 2, 4},
        b5 \in {0, 1}, b6 \in {\h00, \h01, \h04, \h08, \h10},
        b7 \in {\h00, \h04, \h08, \h10, \hF0}}

RawImage(h, full) ==
    [len |-> IF full
             THEN 16 + \h80 * And(h[7], 4) + h[5] * PRG_ROM_PAGE_SIZE
                  + h[6] * CHR_ROM_PAGE_SIZE
             ELSE 16,
     data |-> [i \in {k - 1 : k \in {j \in 1 .. 8 : h[j] # 0}} |-> h[i + 1]]
              @@ (IF full THEN (16 + \h80 * And(h[7], 4)) :> \hA9
                          ELSE Empty)]

InitRom ==
    /\ overflow_checks \in BOOLEAN
    /\ cpu_6502 = CPU_new(Bus_new(Rom(NoProgram, HORIZONTAL)))
    /\ ctl_hist = <<>>
    /\ \E h \in RawHeaders, full \in BOOLEAN :
          hist = [op |-> "image", raw |-> RawImage(h, full), rom |-> NoRom]
    /\ threads = Threads0

LoadRom ==
    /\ hist.op = "image"
    /\ hist' = [hist EXCEPT !.op = "loaded",
                            !.rom = Rom_new(hist.raw, overflow_checks)]
    /\ UNCHANGED <<cpu_6502, overflow_checks, ctl_hist, threads>>

SpecRom == InitRom /\ [][LoadRom]_vars

(* C22: Rom::new ends in a fatal error, and returns no Rom, for every      *)
(* image whose first four bytes are not 4E 45 53 1A, whose byte 7 has a    *)
(* non-zero bit 2 or 3, or whose mapper id is not 0.                       *)
C22_RomRejects ==
    (hist.op = "loaded" /\ RomRejected_mapper(hist.raw)) => hist.rom.fatal

-----------------------------------------------------------------------------
(* Specification SpecBus: CPU reads and writes across the address map:     *)
(* work RAM and its mirrors, the PPU registers and their mirrors, and the  *)
(* cartridge ROM space.                                                    *)

MapWrites ==
    {<<\h0001, \h5A>>, <<\h1801, \hA5>>, <<\h0802, \h5A>>,
     <<\h2006, \h00>>, <<\h3FFE, \h00>>, <<\h3FFF, \h5A>>,
     <<\h2002, \h5A>>, <<\h200A, \h5A>>, <<\h3FFA, \h00>>,
     <<\h3FF8, \h80>>, <<\h200B, \h01>>, <<\h200C, \h77>>,
     <<\h3FFD, \h10>>, <<\h8000, \h5A>>, <<\hFFFF, \h00>>}

MapReads ==
    {\h0001, \h1801, \h1002, \h2007, \h3FFF, \h3FFA, \h200C, \h3FF8,
     \hC000}

NextBus ==
    \/ \E w \in MapWrites : hist.n < MaxMapOps /\ BusWrite(w[1], w[2])
    \/ \E addr \in MapReads : hist.n < MaxMapOps /\ BusRead(addr)

SpecBus == InitBus({HORIZONTAL}) /\ [][NextBus]_vars

(* The bus the operation of this step started from.                        *)
Bus0 == ClearLog(cpu_6502).mem_bus

IsWrite == hist'.n = hist.n + 1 /\ hist'.op = "write"
IsRead == hist'.n = hist.n + 1 /\ hist'.op = "read"

(* C23: a CPU write to $2002, to a mirror of $2002 in $2008-$3FFF or to    *)
(* $8000-$FFFF ends in a fatal error and changes nothing else; the program *)
(* ROM is the same in every reachable state.                               *)
C23_ForbiddenWrites ==
    /\ [](cpu_6502.mem_bus.prg_rom = Rom(NoProgram, HORIZONTAL).prg_rom)
    /\ [][(IsWrite /\ (hist'.addr >= \h8000
                        \/ (hist'.addr >= \h2000 /\ hist'.addr <= \h3FFF
                            /\ And(hist'.addr, \h2007) = \h2002)))
           => cpu_6502'.mem_bus = [Bus0 EXCEPT !.fatal = TRUE]]_vars

(* A write to the mirror $3FFA of $2002 was fatal after RAM was written.   *)
C23_Witness ==
    /\ hist.op = "write" /\ hist.addr = \h3FFA
    /\ cpu_6502.mem_bus.fatal
    /\ Get(cpu_6502.mem_bus.cpu_vram, 1) = \h5A

(* C24: after a CPU write of v at a in $0000-$1FFF, a read at any b in     *)
(* $0000-$1FFF with (b & $07FF) = (a & $07FF) returns v, and no RAM cell   *)
(* with a different masked address is changed.                             *)
C24_RamMirroring ==
    [][(IsWrite /\ hist'.addr <= \h1FFF)
       => /\ \A k \in 0 .. 3 :
               mem_read(cpu_6502'.mem_bus,
                        And(hist'.addr, \h07FF) + k * \h0800).res
               = hist'.data
          /\ \A i \in (DOMAIN cpu_6502.mem_bus.cpu_vram)
                        \cup (DOMAIN cpu_6502'.mem_bus.cpu_vram) :
               i # And(hist'.addr, \h07FF)
               => Get(cpu_6502'.mem_bus.cpu_vram, i)
                  = Get(cpu_6502.mem_bus.cpu_vram, i)]_vars

(* A read at $0001 returned the byte written through the mirror $1801.     *)
C24_Witness ==
    hist.op = "read" /\ hist.addr = \h0001 /\ hist.res = \hA5

(* C25: for every a in $2008-$3FFF a CPU read or write at a returns the    *)
(* same value and has the same effect as the same access at (a & $2007).   *)
C25_RegisterMirroring ==
    [][/\ (IsWrite /\ hist'.addr >= \h2008 /\ hist'.addr <= \h3FFF)
          => cpu_6502'.mem_bus
             = mem_write_direct(Bus0, And(hist'.addr, \h2007), hist'.data)
       /\ (IsRead /\ hist'.addr >= \h2008 /\ hist'.addr <= \h3FFF)
          => /\ cpu_6502'.mem_bus
                = mem_read_direct(Bus0, And(hist'.addr, \h2007)).bus
             /\ hist'.res
                = mem_read_direct(Bus0, And(hist'.addr, \h2007)).res]_vars

(* A read at $3FFF, the mirror of $2007, returned the pattern byte at PPU  *)
(* address $0000, selected by two writes through the mirror $3FFE.         *)
C25_Witness ==
    /\ hist.op = "read" /\ hist.addr = \h3FFF /\ hist.res = \h11
    /\ hist.n = 4

-----------------------------------------------------------------------------
(* Specification SpecReset: main.rs startup() on images of one or two PRG  *)
(* pages whose reset vector is drawn from a few bytes.                     *)

VectorBytes == {\h00, \h01, \h34, \h7F, \h80, \hC0, \hFE, \hFF}

(* A raw image with `pages` PRG pages and one CHR page, zero except for    *)
(* the header and the two bytes of the reset vector at the end of PRG.     *)
VectorImage(pages, lo, hi) ==
    [len |-> 16 + pages * PRG_ROM_PAGE_SIZE + CHR_ROM_PAGE_SIZE,
     data |-> [i \in {j \in 0 .. 5 : <<\h4E, \h45, \h53, \h1A, pages, 1>>[j + 1]
                                       # 0}
                 |-> <<\h4E, \h45, \h53, \h1A, pages, 1>>[i + 1]]
              @@ [i \in {j \in {16 + pages * PRG_ROM_PAGE_SIZE - 4,
                                 16 + pages * PRG_ROM_PAGE_SIZE - 3} :
                            (IF j = 16 + pages * PRG_ROM_PAGE_SIZE - 4
                             THEN lo ELSE hi) # 0}
                    |-> IF i = 16 + pages * PRG_ROM_PAGE_SIZE - 4
                        THEN lo ELSE hi]]

InitReset ==
    /\ overflow_checks \in BOOLEAN
    /\ \E pages \in {1, 2}, lo \in VectorBytes, hi \in VectorBytes :
          /\ cpu_6502 = CPU_new(Bus_new(Rom_new(VectorImage(pages, lo, hi),
                                                overflow_checks)))
          /\ hist = [op |-> "new", lo |-> lo, hi |-> hi]
    /\ ctl_hist = <<>>
    /\ threads = Threads0

Reset ==
    /\ hist.op = "new"
    /\ cpu_6502' = reset(cpu_6502)
    /\ hist' = [hist EXCEPT !.op = "reset"]
    /\ UNCHANGED <<overflow_checks, ctl_hist, threads>>

SpecReset == InitReset /\ [][Reset]_vars

(* C26: with a 16 KiB PRG ROM, reset sets PC to the little-endian word at  *)
(* $FFFC/$FFFD, read through the mirror in $C000-$FFFF (offsets $3FFC and  *)
(* $3FFD of the ROM), SP to $FD, P to $24, and clears A, X and Y.          *)
C26_Reset ==
    (hist.op = "reset" /\ cpu_6502.mem_bus.prg_rom.len = \h4000)
    => /\ ~Fatal(cpu_6502)
       /\ cpu_6502.reg_pc = hist.hi * 256 + hist.lo
       /\ cpu_6502.reg_pc
          = Get(cpu_6502.mem_bus.prg_rom.data, \h3FFD) * 256
            + Get(cpu_6502.mem_bus.prg_rom.data, \h3FFC)
       /\ cpu_6502.reg_sp = \hFD /\ cpu_6502.reg_stat = \h24
       /\ cpu_6502.reg_a = 0 /\ cpu_6502.reg_x = 0 /\ cpu_6502.reg_y = 0

(* A 16 KiB image whose vector bytes are 34 C0 was reset to PC = $C034.    *)
C26_Witness ==
    /\ hist.op = "reset" /\ cpu_6502.mem_bus.prg_rom.len = \h4000
    /\ cpu_6502.reg_pc = \hC034 /\ cpu_6502.reg_sp = \hFD

-----------------------------------------------------------------------------
(* Specification SpecStat: programs that pull arbitrary bytes into the     *)
(* status register with PLP and RTI, push it with PHP and BRK, and take    *)
(* NMIs.                                                                   *)

(* main: enable NMI; LDA #v; STA $01FE; PLP; PHP; BRK; then wait.          *)
(* brk:  LDA #w; STA $01FB (the status byte BRK pushed); RTI.              *)
(* nmi:  LDA #w; STA $01FB (the status byte the NMI pushed); PLP; PHP; RTI *)
StatProgram(v, w) ==
    [main |-> EnableNmi \o <<\hA9, v, \h8D, \hFE, \h01, \h28, \h08, \h00>>
              \o WaitLoop(ResetVector + 13),
     brk |-> <<\hA9, w, \h8D, \hFB, \h01, \h40>>,
     nmi |-> <<\hA9, w, \h8D, \hFB, \h01, \h28, \h08, \h40>>]

StatBytes == {\h00, \h10, \hDF, \hFF}

InitStat ==
    /\ overflow_checks \in BOOLEAN
    /\ \E v \in StatBytes, w \in StatBytes :
          cpu_6502 = startup(Rom(StatProgram(v, w), HORIZONTAL))
    /\ ctl_hist = [p \in Ports |-> CtlHist0]
    /\ hist = CpuHist0
    /\ threads = Threads0

SpecStat == InitStat /\ [][Interpret]_vars

(* C27: in every CPU state reachable after reset bit 5 of P is 1, and      *)
(* every copy of P pushed by PHP, BRK or an NMI has bit 5 set.             *)
C27_StatusBit5 ==
    /\ [](And(cpu_6502.reg_stat, \h20) # 0)
    /\ [][((hist'.op = "nmi"
            \/ (hist'.op = "instr" /\ Code(cpu_6502) = \h00))
           => And(Stack(cpu_6502', cpu_6502.reg_sp - 2), \h20) # 0)
          /\ ((hist'.op = "instr" /\ Code(cpu_6502) = \h08)
              => And(Stack(cpu_6502', cpu_6502.reg_sp), \h20) # 0)]_vars

(* In the NMI handler PLP has pulled the byte $00 and PHP has pushed the   *)
(* status $20 as $30.                                                      *)
C27_Witness ==
    /\ hist.services > 0 /\ cpu_6502.reg_pc = NmiVector + 7
    /\ cpu_6502.reg_stat = \h20
    /\ Stack(cpu_6502, cpu_6502.reg_sp + 1) = \h30

-----------------------------------------------------------------------------
(* Specification SpecJmp: JMP (ptr) through pointers in work RAM.          *)

(* Where the 6502 fetches the high byte of the word at ptr.                *)
WrapNext(ptr) == And(ptr, \hFF00) + ((ptr + 1) % 256)

(* LDA #$55; STA ptr+1; LDA #hi; STA (ptr & $FF00) | ((ptr+1) & $FF);      *)
(* LDA #lo; STA ptr; JMP (ptr)                                             *)
JmpProgram(ptr, lo, hi) ==
    [main |-> <<\hA9, \h55, \h8D, (ptr + 1) % 256, (ptr + 1) \div 256,
                \hA9, hi, \h8D, WrapNext(ptr) % 256, WrapNext(ptr) \div 256,
                \hA9, lo, \h8D, ptr % 256, ptr \div 256,
                \h6C, ptr % 256, ptr \div 256>>,
     brk |-> <<>>, nmi |-> <<>>]

JmpPointers == {\h00FF, \h0280, \h02FF, \h0AFF}

InitJmp ==
    /\ overflow_checks \in BOOLEAN
    /\ \E ptr \in JmpPointers, lo \in {\h00, \h34, \hFF},
          hi \in {\h12, \h80, \hFF} :
          cpu_6502 = startup(Rom(JmpProgram(ptr, lo, hi), HORIZONTAL))
    /\ ctl_hist = [p \in Ports |-> CtlHist0]
    /\ hist = CpuHist0
    /\ threads = Threads0

InterpretJmp ==
    /\ ~Fatal(cpu_6502)
    /\ cpu_6502.reg_pc >= ResetVector /\ cpu_6502.reg_pc < ResetVector + 18
    /\ cpu_6502' = interpret(ClearLog(cpu_6502))
    /\ hist' = CpuObserve(hist, cpu_6502, cpu_6502')
    /\ UNCHANGED <<overflow_checks, ctl_hist, threads>>

SpecJmp == InitJmp /\ [][InterpretJmp]_vars

(* The 16-bit operand of the instruction at the program counter.           *)
Operand16(c) ==
    Operand(c) + 256 * read_prg_rom(c.mem_bus, c.reg_pc + 2)

(* C28: JMP (ptr) sets PC to the word whose low byte is at ptr and whose   *)
(* high byte is at (ptr & $FF00) | ((ptr + 1) & $00FF).                    *)
C28_IndirectJmp ==
    [][(hist'.op = "instr" /\ Code(cpu_6502) = \h6C)
       => /\ ~Fatal(cpu_6502')
          /\ cpu_6502'.reg_pc
             = Get(cpu_6502.mem_bus.cpu_vram,
                   And(Operand16(cpu_6502), \h07FF))
               + 256 * Get(cpu_6502.mem_bus.cpu_vram,
                           And(WrapNext(Operand16(cpu_6502)), \h07FF))]_vars

(* JMP ($02FF) with $34 at $02FF, $12 at $0200 and $55 at $0300 went to    *)
(* $1234.                                                                  *)
C28_Witness ==
    /\ hist.op = "instr" /\ cpu_6502.reg_pc = \h1234
    /\ Get(cpu_6502.mem_bus.cpu_vram, \h02FF) = \h34
    /\ Get(cpu_6502.mem_bus.cpu_vram, \h0200) = \h12
    /\ Get(cpu_6502.mem_bus.cpu_vram, \h0300) = \h55

-----------------------------------------------------------------------------
(* Specification SpecBranch: one branch or JMP instruction placed at a     *)
(* chosen address, reached with the Zero flag set or clear.                *)

(* main: LDA #z; JMP at.  At `at`: the instruction under test.             *)
BranchRom(z, at, code) ==
    [Rom([main |-> <<\hA9, z, \h4C, at % 256, at \div 256>>,
          brk |-> <<>>, nmi |-> <<>>], HORIZONTAL)
       EXCEPT !.prg_rom.data = PrgPut(@, at, code)]

BranchSites == {\hC010, \hC0FC, \hC0FE}
BranchOffsets == {\h00, \h04, \h7F, \h80, \hFA, \hFD, \hFE, \hFF}

(* BNE or BEQ with each offset; JMP to the instruction itself, to its      *)
(* first operand byte, and to the instruction that follows.                *)
TestCodes(at) ==
    {<<op, off>> : op \in {\hD0, \hF0}, off \in BranchOffsets}
    \cup {<<\h4C, (at + k) % 256, (at + k) \div 256>> : k \in {0, 1, 3}}

InitBranch ==
    /\ overflow_checks \in BOOLEAN
    /\ \E z \in {0, 1}, at \in BranchSites :
          \E code \in TestCodes(at) :
             cpu_6502 = startup(BranchRom(z, at, code))
    /\ ctl_hist = [p \in Ports |-> CtlHist0]
    /\ hist = CpuHist0
    /\ threads = Threads0

(* The three instructions: tot_cycles is 7 after reset, 9 after LDA and 12 *)
(* after JMP.                                                              *)
InterpretBranch ==
    /\ ~Fatal(cpu_6502)
    /\ cpu_6502.tot_cycles <= 12
    /\ cpu_6502' = interpret(ClearLog(cpu_6502))
    /\ hist' = CpuObserve(hist, cpu_6502, cpu_6502')
    /\ UNCHANGED <<overflow_checks, ctl_hist, threads>>

SpecBranch == InitBranch /\ [][InterpretBranch]_vars

(* The branch at the program counter, as the 6502 defines it.              *)
IsBranch(c) == Code(c) \in {\hD0, \hF0}

BranchTaken(c) ==
    \/ (Code(c) = \hD0 /\ And(c.reg_stat, \h02) = 0)
    \/ (Code(c) = \hF0 /\ And(c.reg_stat, \h02) # 0)

BranchTarget(c) ==
    (c.reg_pc + 2 + Operand(c) - (IF Operand(c) >= 128 THEN 256 ELSE 0)
     + 65536) % 65536

(* C29: a branch not taken costs its base cycles (2), a taken branch one   *)
(* more, and a taken branch whose target is in another 256-byte page than  *)
(* the following instruction one more again.                               *)
C29_BranchCycles ==
    [][(hist'.op = "instr" /\ IsBranch(cpu_6502))
       => cpu_6502'.tot_cycles - cpu_6502.tot_cycles
          = IF ~BranchTaken(cpu_6502) THEN 2
            ELSE IF And(BranchTarget(cpu_6502), \hFF00)
                    = And(cpu_6502.reg_pc + 2, \hFF00)
            THEN 3 ELSE 4]_vars

(* C30: a taken branch and JMP leave PC at the computed target, whatever   *)
(* the target is; only an instruction that did not assign PC is advanced   *)
(* by its length.                                                          *)
C30_PcUpdate ==
    [][/\ (hist'.op = "instr" /\ IsBranch(cpu_6502))
          => cpu_6502'.reg_pc = IF BranchTaken(cpu_6502)
                                THEN BranchTarget(cpu_6502)
                                ELSE cpu_6502.reg_pc + 2
       /\ (hist'.op = "instr" /\ Code(cpu_6502) = \h4C)
          => cpu_6502'.reg_pc = Operand16(cpu_6502)]_vars

-----------------------------------------------------------------------------
(* Specification SpecStack: the stack operations of the CPU applied from   *)
(* the state after reset (SP = $FD), far enough to wrap SP both ways.      *)

(* What has been observed: the last operation, the value pushed, the value *)
(* pulled, SP before the last operation, and the number of operations.     *)
StackHist0 == [op |-> "none", data |-> 0, res |-> 0, sp0 |-> 0, n |-> 0]

InitStack ==
    /\ overflow_checks \in BOOLEAN
    /\ cpu_6502 = startup(Rom(NoProgram, HORIZONTAL))
    /\ ctl_hist = <<>>
    /\ hist = StackHist0
    /\ threads = Threads0

StackStep(op, data, res, c) ==
    /\ cpu_6502' = c
    /\ hist' = [op |-> op, data |-> data, res |-> res,
                sp0 |-> cpu_6502.reg_sp, n |-> hist.n + 1]
    /\ UNCHANGED <<overflow_checks, ctl_hist, threads>>

Push ==
    \E val \in {\h5A, \hFF} :
       /\ hist.n < MaxStackOps
       /\ StackStep("push", val, 0, stack_push(cpu_6502, val))

Push16 ==
    \E val \in {\h1234, \hC0FF} :
       /\ hist.n < MaxStackOps
       /\ StackStep("push16", val, 0, stack_push16(cpu_6502, val))

Pull ==
    /\ hist.n < MaxStackOps
    /\ StackStep("pull", 0, stack_pull(cpu_6502).res,
                 stack_pull(cpu_6502).cpu)

(* The pull sequence of rts and rti: change_endian(stack_pull16()).        *)
Pull16 ==
    /\ hist.n < MaxStackOps
    /\ StackStep("pull16", 0, change_endian(stack_pull16(cpu_6502).res),
                 stack_pull16(cpu_6502).cpu)

NextStack == Push \/ Push16 \/ Pull \/ Pull16

SpecStack == InitStack /\ [][NextStack]_vars

(* C31: a push writes at $0100+SP and then decrements SP modulo 256; a     *)
(* pull increments SP modulo 256 and then reads at $0100+SP; a 16-bit push *)
(* of v at SP = s stores the high byte of v at $0100+s and the low byte at *)
(* $0100+((s-1) mod 256); a 16-bit push followed by the pull sequence of   *)
(* RTS/RTI gives back v and the SP before the push.                        *)
C31_StackDiscipline ==
    [][/\ (hist'.op = "push")
          => (/\ Stack(cpu_6502', cpu_6502.reg_sp) = hist'.data
              /\ cpu_6502'.reg_sp = (cpu_6502.reg_sp + 255) % 256)
       /\ (hist'.op = "pull")
          => (/\ cpu_6502'.reg_sp = (cpu_6502.reg_sp + 1) % 256
              /\ hist'.res = Stack(cpu_6502, cpu_6502.reg_sp + 1))
       /\ (hist'.op = "push16")
          => (/\ Stack(cpu_6502', cpu_6502.reg_sp) = hist'.data \div 256
              /\ Stack(cpu_6502', cpu_6502.reg_sp - 1) = hist'.data % 256
              /\ cpu_6502'.reg_sp = (cpu_6502.reg_sp + 254) % 256)
       /\ (hist'.op = "pull16" /\ hist.op = "push16")
          => (/\ hist'.res = hist.data
              /\ cpu_6502'.reg_sp = hist.sp0)]_vars

(* $C0FF was pushed at SP = $00 (high byte at $0100, low byte at $01FF)    *)
(* and pulled back, SP returning to $00.                                   *)
C31_Witness ==
    /\ hist.op = "pull16" /\ hist.res = \hC0FF /\ cpu_6502.reg_sp = 0
    /\ Stack(cpu_6502, 0) = \hC0 /\ Stack(cpu_6502, \hFF) = \hFF

-----------------------------------------------------------------------------
(* Specification SpecCmp: CMP, CPX and CPY with immediate operands, after  *)
(* an ADC that leaves Carry and Overflow in each combination.              *)

(* LDA #p; ADC #q; LDA #r; LDX #r; LDY #r; op #m                           *)
CmpProgram(pq, r, m, op) ==
    [main |-> <<\hA9, pq[1], \h69, pq[2], \hA9, r, \hA2, r, \hA0, r,
                op, m>>,
     brk |-> <<>>, nmi |-> <<>>]

CmpBytes == {\h00, \h01, \h7F, \h80, \hFF}

InitCmp ==
    /\ overflow_checks \in BOOLEAN
    /\ \E pq \in {<<\h00, \h00>>, <<\h50, \h50>>, <<\hFF, \h01>>,
                   <<\h80, \h80>>},
          r \in CmpBytes, m \in CmpBytes, op \in {\hC9, \hE0, \hC0} :
          cpu_6502 = startup(Rom(CmpProgram(pq, r, m, op), HORIZONTAL))
    /\ ctl_hist = [p \in Ports |-> CtlHist0]
    /\ hist = CpuHist0
    /\ threads = Threads0

InterpretCmp ==
    /\ ~Fatal(cpu_6502)
    /\ cpu_6502.reg_pc >= ResetVector /\ cpu_6502.reg_pc < ResetVector + 12
    /\ cpu_6502' = interpret(ClearLog(cpu_6502))
    /\ hist' = CpuObserve(hist, cpu_6502, cpu_6502')
    /\ UNCHANGED <<overflow_checks, ctl_hist, threads>>

SpecCmp == InitCmp /\ [][InterpretCmp]_vars

(* The register the compare instruction at the program counter reads.      *)
CmpReg(c) ==
    IF Code(c) = \hC9 THEN c.reg_a
    ELSE IF Code(c) = \hE0 THEN c.reg_x ELSE c.reg_y

(* C32: CMP, CPX and CPY set Carry = (R >= M), Zero = (R = M) and Negative *)
(* = bit 7 of (R - M) mod 256, and leave the registers, the Overflow flag  *)
(* and every other flag unchanged.                                         *)
C32_Compare ==
    [][(hist'.op = "instr" /\ Code(cpu_6502) \in {\hC9, \hE0, \hC0})
       => /\ ~Fatal(cpu_6502')
          /\ (And(cpu_6502'.reg_stat, \h01) # 0)
             <=> (CmpReg(cpu_6502) >= Operand(cpu_6502))
          /\ (And(cpu_6502'.reg_stat, \h02) # 0)
             <=> (CmpReg(cpu_6502) = Operand(cpu_6502))
          /\ (And(cpu_6502'.reg_stat, \h80) # 0)
             <=> ((CmpReg(cpu_6502) - Operand(cpu_6502) + 256) % 256 >= 128)
          /\ And(cpu_6502'.reg_stat, \h7C) = And(cpu_6502.reg_stat, \h7C)
          /\ cpu_6502'.reg_a = cpu_6502.reg_a
          /\ cpu_6502'.reg_x = cpu_6502.reg_x
          /\ cpu_6502'.reg_y = cpu_6502.reg_y
          /\ cpu_6502'.reg_sp = cpu_6502.reg_sp
          /\ cpu_6502'.reg_pc = cpu_6502.reg_pc + 2]_vars

(* CPX #$80 with X = $7F and Overflow set: Carry clear, Negative set,      *)
(* Overflow still set.                                                     *)
C32_Witness ==
    /\ hist.op = "instr" /\ cpu_6502.reg_pc = ResetVector + 12
    /\ read_prg_rom(cpu_6502.mem_bus, ResetVector + 10) = \hE0
    /\ read_prg_rom(cpu_6502.mem_bus, ResetVector + 11) = \h80
    /\ cpu_6502.reg_x = \h7F
    /\ And(cpu_6502.reg_stat, \hC3) = \hC0

-----------------------------------------------------------------------------
(* Specification SpecFour: $2006/$2007 accesses to the four name tables    *)
(* under each mirroring mode Rom::new can produce.                         *)

NextFour ==
    \/ \E data \in {\h20, \h24, \h28, \h2C} :
          hist.n < MaxMapOps /\ ~Ppu.addr_latch /\ BusWrite(\h2006, data)
    \/ \E data \in {\h00, \hFF} :
          hist.n < MaxMapOps /\ Ppu.addr_latch /\ BusWrite(\h2006, data)
    \/ hist.n < MaxMapOps /\ BusWrite(\h2007, \h5A)
    \/ hist.n < MaxMapOps /\ BusRead(\h2007)

SpecFour ==
    InitBus({HORIZONTAL, VERTICAL, FOUR_SCREEN}) /\ [][NextFour]_vars

(* C33: for every mirroring mode and every address in $2000-$2FFF,         *)
(* mirror_vram_addr returns an index below $0800, and a $2007 read or      *)
(* write there does not index outside the 2 KiB VRAM array.                *)
C33_VramIndex ==
    (hist.op \in {"read", "write"} /\ hist.addr = \h2007
     /\ hist.ptr >= \h2000 /\ hist.ptr <= \h2FFF)
    => (mirror_vram_addr(Ppu, hist.ptr) < \h0800 /\ ~Ppu.fatal)

-----------------------------------------------------------------------------
(* Specification SpecUpdate: main.rs update(), one interpret() call per    *)
(* step, on four programs: a JMP loop, the OAM DMA loop, the OAM DMA loop  *)
(* with NMIs, and a jump to $FFFF.                                         *)

UpdatePrograms ==
    {[main |-> <<\h4C, \h00, \hC0>>, brk |-> <<>>, nmi |-> <<\h40>>],
     [main |-> WaitLoop(ResetVector), brk |-> <<>>, nmi |-> <<\h40>>],
     [main |-> EnableNmi \o WaitLoop(ResetVector + 5),
      brk |-> <<>>, nmi |-> <<\h40>>],
     [main |-> <<\h4C, \hFF, \hFF>>, brk |-> <<>>, nmi |-> <<\h40>>]}

(* Where update() is, and what has been observed of the current call:      *)
(*   phase     "outer": at `while scanlines <= 240`; "inner": at `while    *)
(*             scanlines < scanline`; "vbl": at `while scanlines > 240`;   *)
(*             "done": not in a call                                       *)
(*   scanline  the local variable of update()                              *)
(*   calls     calls of update() so far                                    *)
(*   in241     ticks of this call, up to the last interpret() call but     *)
(*             one, that took the scanline counter to 241                  *)
(*   wraps     ticks of this call, up to the last interpret() call but     *)
(*             one, that wrapped the scanline counter                      *)
(*   after     interpret() calls of this call begun after a wrap           *)
(*   turn      flips at every interpret() call                             *)
(* The ticks of the last interpret() call are those of the PPU's log.      *)
UpdateHist0 ==
    [phase |-> "done", scanline |-> 0, calls |-> 0, in241 |-> 0,
     wraps |-> 0, after |-> 0, turn |-> FALSE]

InitUpdate ==
    /\ overflow_checks \in BOOLEAN
    /\ \E program \in UpdatePrograms :
          cpu_6502 = startup(Rom(program, HORIZONTAL))
    /\ ctl_hist = <<>>
    /\ hist = UpdateHist0
    /\ threads = Threads0

(* update() from a loop head to its next interpret() call (run) or to its  *)
(* return: sl is the local `scanline`, ps the PPU's scanline counter.      *)
RECURSIVE UpdateControl(_, _, _)
UpdateControl(phase, sl, ps) ==
    IF phase = "outer"
    THEN IF ps <= 240 THEN UpdateControl("inner", sl + 8, ps)
         ELSE UpdateControl("vbl", sl, ps)
    ELSE IF phase = "inner"
    THEN IF ps < sl THEN [phase |-> "inner", scanline |-> sl, run |-> TRUE]
         ELSE UpdateControl("outer", sl, ps)
    ELSE IF ps > 240 THEN [phase |-> "vbl", scanline |-> sl, run |-> TRUE]
    ELSE [phase |-> "done", scanline |-> sl, run |-> FALSE]

Entries241(log) ==
    Cardinality({i \in DOMAIN log : log[i].op = "tick" /\ log[i].sl0 # 241
                                     /\ log[i].sl1 = 241})

In241 == hist.in241 + Entries241(Ppu.log)

WrapsSeen == hist.wraps + Wraps(Ppu.log)

UpdateCall ==
    /\ hist.phase = "done" /\ hist.calls < MaxFrames
    /\ ~Fatal(cpu_6502)
    /\ cpu_6502' = ClearLog(cpu_6502)
    /\ hist' = [UpdateHist0 EXCEPT !.phase = "outer",
                                   !.calls = hist.calls + 1,
                                   !.turn = hist.turn]
    /\ UNCHANGED <<overflow_checks, ctl_hist, threads>>

UpdateHist(k) ==
    IF k.run
    THEN [hist EXCEPT !.phase = k.phase, !.scanline = k.scanline,
                      !.in241 = In241, !.wraps = WrapsSeen,
                      !.after = IF WrapsSeen > 0 THEN @ + 1 ELSE @,
                      !.turn = ~@]
    ELSE [hist EXCEPT !.phase = "done", !.in241 = In241, !.wraps = WrapsSeen]

(* update()'s own part of a step: its loop tests and local variable.       *)
UpdateAdvance ==
    /\ hist.phase # "done" /\ ~Fatal(cpu_6502)
    /\ hist' = UpdateHist(UpdateControl(hist.phase, hist.scanline,
                                        Ppu.scanlines))

UpdateStep ==
    /\ UpdateAdvance
    /\ cpu_6502' =
          IF UpdateControl(hist.phase, hist.scanline, Ppu.scanlines).run
          THEN interpret(ClearLog(cpu_6502))
          ELSE ClearLog(cpu_6502)
    /\ UNCHANGED <<overflow_checks, ctl_hist, threads>>

NextUpdate == UpdateCall \/ UpdateStep

(* update() is a loop of the compute thread, which runs while the process  *)
(* does: a step of it that is possible is taken.  UpdateStep is possible   *)
(* exactly when UpdateAdvance is (interpret is total), and every           *)
(* UpdateStep step changes hist, so this is WF_vars(UpdateStep).           *)
SpecUpdate == InitUpdate /\ [][NextUpdate]_vars /\ WF_hist(UpdateAdvance)

(* C34: every call of update() spans exactly one PPU frame: during the     *)
(* call the scanline counter enters scanline 241 exactly once and wraps    *)
(* exactly once, and update() returns at the first instruction boundary    *)
(* after the wrap.                                                         *)
C34_OneFramePerUpdate ==
    /\ [](In241 <= 1 /\ WrapsSeen <= 1 /\ hist.after = 0)
    /\ []((hist.phase = "done" /\ hist.calls > 0)
           => (hist.in241 = 1 /\ hist.wraps = 1))
    /\ (hist.phase # "done")
          ~> (hist.phase = "done" \/ Fatal(cpu_6502))

(* C38: every interpret() call services an NMI or executes an instruction  *)
(* and advances the PPU by at least one dot, or aborts; update() therefore *)
(* always reaches the frame boundary and returns.                          *)
C38_CpuProgress ==
    /\ [][(hist'.turn # hist.turn /\ ~Fatal(cpu_6502'))
           => (Pos(Ppu') # Pos(Ppu)
               /\ cpu_6502'.tot_cycles > cpu_6502.tot_cycles)]_vars
    /\ ((hist.phase # "done") ~> (hist.phase = "done" \/ Fatal(cpu_6502)))

(* C35: at every instruction boundary the scanline counter is in 0..261    *)
(* and the dot counter in 0..340, and each tick call of the last           *)
(* instruction, the three of an OAM DMA included, advanced the scanline    *)
(* counter by at most one (from 261 to 0 at the end of a frame).           *)
C35_CounterRanges ==
    ~Fatal(cpu_6502)
    => /\ Ppu.scanlines \in 0..261
       /\ Ppu.cycles \in 0..340
       /\ \A i \in DOMAIN Ppu.log :
             Ppu.log[i].op = "tick"
             => \/ Ppu.log[i].sl1 \in {Ppu.log[i].sl0, Ppu.log[i].sl0 + 1}
                \/ Ppu.log[i].sl0 = 261 /\ Ppu.log[i].sl1 = 0

C35_Witness ==
    /\ ~Fatal(cpu_6502)
    /\ \E i, j, k \in DOMAIN Ppu.log :
          /\ Ppu.log[i].op = "tick" /\ Ppu.log[i].arg = 255
          /\ Ppu.log[i].sl0 = 261 /\ Ppu.log[i].sl1 = 0
          /\ Ppu.log[j].op = "tick" /\ Ppu.log[j].sl1 = Ppu.log[j].sl0 + 1
          /\ Ppu.log[k].op = "write_oam_dma"

-----------------------------------------------------------------------------
(* Specification SpecWindow: CTRL and MASK writes and status reads over a  *)
(* frame in which sprite 0 is hit. Time passes by OAM DMA.                 *)

(* setup: the writes made so far of the two that place sprite 0 on line   *)
(* 240 and turn MASK bit 4 on; frames: the frames completed.               *)
WindowHist0 == [setup |-> 0, frames |-> 0]

InitWindow ==
    /\ overflow_checks \in BOOLEAN
    /\ cpu_6502 = startup(Rom(NoProgram, HORIZONTAL))
    /\ ctl_hist = <<>>
    /\ hist = WindowHist0
    /\ threads = Threads0

WindowOp(b) ==
    /\ ~Fatal(cpu_6502)
    /\ cpu_6502' = [cpu_6502 EXCEPT !.mem_bus = b]
    /\ hist' = [setup |-> IF hist.setup < 2 THEN hist.setup + 1 ELSE 2,
                frames |-> hist.frames + Wraps(b.ppu.log)]
    /\ UNCHANGED <<overflow_checks, ctl_hist, threads>>

WindowWrite(addr, data) ==
    WindowOp(mem_write(ClearLog(cpu_6502).mem_bus, addr, data))

WindowRead(addr) == WindowOp(mem_read(ClearLog(cpu_6502).mem_bus, addr).bus)

NextWindow ==
    \/ hist.setup = 0 /\ WindowWrite(\h0200, \hF0)
    \/ hist.setup = 1 /\ WindowWrite(\h2001, \h10)
    \/ \E data \in {\h00, \h80} : hist.setup = 2 /\ WindowWrite(\h2000, data)
    \/ hist.setup = 2 /\ WindowRead(\h2002)
    \/ /\ hist.setup = 2 /\ hist.frames < MaxVblFrames
       /\ WindowWrite(\h4014, \h02)

SpecWindow == InitWindow /\ [][NextWindow]_vars

(* C36: at every instruction boundary, if the PPU's NMI flag is asserted   *)
(* or the vblank bit of the status register is set then the scanline       *)
(* counter is in 241..261; the tick that wraps the scanline counter to 0   *)
(* leaves both clear, and the sprite-0-hit bit too.                        *)
C36_VblankWindow ==
    ~Fatal(cpu_6502)
    => /\ (Ppu.nmi_interrupt \/ And(Ppu.stat, \h80) # 0)
             => Ppu.scanlines \in 241..261
       /\ \A i \in DOMAIN Ppu.log :
             (Ppu.log[i].op = "tick" /\ Ppu.log[i].sl1 < Ppu.log[i].sl0)
             => (~Ppu.log[i].nmi1 /\ And(Ppu.log[i].stat1, \hC0) = 0)

(* A tick wrapped the scanline counter with the NMI flag raised by a CTRL  *)
(* write during vblank and the vblank and sprite-0-hit bits set.           *)
C36_Witness ==
    /\ ~Fatal(cpu_6502)
    /\ \E i \in DOMAIN Ppu.log :
          /\ Ppu.log[i].op = "tick" /\ Ppu.log[i].sl0 = 261
          /\ Ppu.log[i].sl1 = 0
          /\ Ppu.log[i].nmi0 /\ And(Ppu.log[i].stat0, \hC0) = \hC0

(* C37: no tick evaluates the unsigned subtraction (scanline - 4) of the   *)
(* end-of-scanline sprite-0 test with scanline < 4: no tick ends one of    *)
(* the scanlines 0 to 3, where PPU::tick makes the test, and none aborts   *)
(* there in a build with overflow checks.                                  *)
C37_Sprite0Defined ==
    \A i \in DOMAIN Ppu.log :
       Ppu.log[i].op = "tick"
       => ~(/\ Ppu.log[i].sl0 < 4
            /\ (Ppu.log[i].fatal \/ Ppu.log[i].sl1 = Ppu.log[i].sl0 + 1))

(* C39: no input is lost: every input the compute loop receives that       *)
(* carries a key event, the first one included, is the one its next step   *)
(* applies to controller 1 before it computes a frame.                     *)
C39_NoInputLost ==
    [][/\ ((Len(threads'.input_ch) < Len(threads.input_ch)
            /\ Head(threads.input_ch).some)
           => (threads'.compute = "update"
               /\ threads'.input_option = Head(threads.input_ch)))
       /\ ((threads.compute = "update" /\ threads'.compute # "update"
            /\ threads.input_option.some)
           => (cpu_6502'.mem_bus.port1 =
                 Controller_keyboard_input(cpu_6502.mem_bus.port1,
                                           threads.input_option.scancode,
                                           threads.input_option.pressed)))
      ]_vars

-----------------------------------------------------------------------------
(* Specification SpecTrip: interrupt_nmi followed by rti, from CPU states  *)
(* with any P that has bit 5 set, as every P after reset has, and a choice *)
(* of PC and SP.                                                           *)

TripPcs == {\h0000, \h80FF, \hC000, \hC123, \hFFFF}

TripSps == {\h00, \h01, \h02, \h03, \hFD, \hFF}

TripStats == {p \in 0..255 : And(p, \h20) # 0}

(* The registers before the NMI, and the last operation.                   *)
TripHist(op, c) ==
    [op |-> op, pc |-> c.reg_pc, sp |-> c.reg_sp, p |-> c.reg_stat]

InitTrip ==
    /\ overflow_checks \in BOOLEAN
    /\ \E pc \in TripPcs, sp \in TripSps, p \in TripStats :
          cpu_6502 = [startup(Rom(NoProgram, HORIZONTAL)) EXCEPT
                        !.reg_pc = pc, !.reg_sp = sp, !.reg_stat = p]
    /\ ctl_hist = <<>>
    /\ hist = TripHist("none", cpu_6502)
    /\ threads = Threads0

NmiEntry ==
    /\ hist.op = "none"
    /\ cpu_6502' = interrupt_nmi(cpu_6502)
    /\ hist' = [hist EXCEPT !.op = "nmi"]
    /\ UNCHANGED <<overflow_checks, ctl_hist, threads>>

Rti ==
    /\ hist.op = "nmi"
    /\ cpu_6502' = rti(cpu_6502)
    /\ hist' = [hist EXCEPT !.op = "rti"]
    /\ UNCHANGED <<overflow_checks, ctl_hist, threads>>

NextTrip == NmiEntry \/ Rti

SpecTrip == InitTrip /\ [][NextTrip]_vars

(* C40: NMI entry followed immediately by RTI restores PC and SP to their  *)
(* values before the NMI and every bit of P except bit 4, which reads      *)
(* clear, and bit 5, which reads set; the InterruptDisable flag (bit 2)    *)
(* is as it was before the interrupt.                                      *)
C40_InterruptRoundTrip ==
    hist.op = "rti"
    => /\ ~Fatal(cpu_6502)
       /\ cpu_6502.reg_pc = hist.pc
       /\ cpu_6502.reg_sp = hist.sp
       /\ And(cpu_6502.reg_stat, \hCF) = And(hist.p, \hCF)
       /\ And(cpu_6502.reg_stat, \h30) = \h20
       /\ And(cpu_6502.reg_stat, \h04) = And(hist.p, \h04)

(* A round trip from a state with InterruptDisable clear and bit 4 set,    *)
(* whose pushes wrapped the stack pointer from $00 to $FF.                 *)
C40_Witness ==
    /\ hist.op = "rti" /\ hist.sp = \h01 /\ hist.pc = \hC123
    /\ And(hist.p, \h14) = \h10
    /\ cpu_6502.reg_sp = \h01 /\ cpu_6502.reg_pc = \hC123
    /\ And(cpu_6502.reg_stat, \h04) = 0

====
